---- MODULE Spec2Model ----
\* Content ingestion, listing and deletion of the support chatbot's knowledge
\* base: the route handlers POST /api/documents, GET/POST/DELETE /api/urls, the
\* client-side grouping of the listing, and the vector store they share.
EXTENDS Integers, Sequences, FiniteSets, TLC

\* ---------------------------------------------------------------------------
\* Bounds of the model
\* ---------------------------------------------------------------------------
\* Largest number of chunks the splitter returns for an uploaded text.
MaxChunks == 2
\* Largest number of ids the store puts in one page of a listing (the handlers
\* ask for at most ListLimit; the store may answer with shorter pages).
MaxPage == 2
\* Largest number of deleteItem calls one admin page issues.
MaxDeletes == 2
\* Largest number of turns of one conversation, and of calls of the handoff
\* tool the language model makes in one turn.
MaxTurns == 2
MaxToolCalls == 1
\* The instants at which the clock can be read while the process runs, and the
\* instants of ingestions of earlier runs of the process, whose records the
\* store still holds. The decimal rendering of 1 is a proper prefix of the
\* rendering of 10 and of 11.
Instants == {10, 11}
PriorInstants == {1}
\* The requests of a run, in order of arrival.
Requests == {1, 2}

\* ---------------------------------------------------------------------------
\* JavaScript values
\* ---------------------------------------------------------------------------
\* Strings the handlers take apart (record ids) are sequences of characters;
\* strings that are only stored and compared are TLA+ strings.
Undefined == "<undefined>"
NoId == <<Undefined>>
Null == "<null>"
NullId == <<Null>>
Truthy(v) == v # Undefined /\ v # ""

Digit(d) == CASE d = 0 -> "0" [] d = 1 -> "1" [] d = 2 -> "2" [] d = 3 -> "3"
              [] d = 4 -> "4" [] d = 5 -> "5" [] d = 6 -> "6" [] d = 7 -> "7"
              [] d = 8 -> "8" [] d = 9 -> "9"

\* Date.now().toString() and `${n}`: the decimal rendering of a number
RECURSIVE NumToString(_)
NumToString(n) ==
    IF n < 10 THEN <<Digit(n)>> ELSE NumToString(n \div 10) \o <<Digit(n % 10)>>

StartsWith(s, p) == Len(p) <= Len(s) /\ SubSeq(s, 1, Len(p)) = p

\* Index of the first occurrence of sep in s, 0 when there is none.
IndexOf(s, sep) ==
    LET hits == {i \in 1..Len(s) : StartsWith(SubSeq(s, i, Len(s)), sep)}
    IN  IF hits = {} THEN 0 ELSE CHOOSE i \in hits : \A j \in hits : i <= j

\* s.split(sep)[0]
SplitFirst(s, sep) ==
    IF IndexOf(s, sep) = 0 THEN s ELSE SubSeq(s, 1, IndexOf(s, sep) - 1)

DocTag == <<"d", "o", "c", "_">>
ChunkSep == <<"_", "c", "h", "u", "n", "k">>

\* new Date().toISOString() and new Date(isoString)
ToISOString(t) == <<"ISO", t>>
ParseDate(s) == s[2]

ToLowerCase(s) == IF s = "Document" THEN "document" ELSE s

Min(a, b) == IF a < b THEN a ELSE b
Range(f) == {f[i] : i \in DOMAIN f}

\* ---------------------------------------------------------------------------
\* Program constants
\* ---------------------------------------------------------------------------
MAX_FILE_SIZE == 10 * 1024 * 1024
SUPPORTED_TYPES == {"text/plain"}
ListLimit == 100

\* ---------------------------------------------------------------------------
\* The vector store (external): a map from record id to metadata
\* ---------------------------------------------------------------------------
Upsert(s, id, meta) == [i \in DOMAIN s \cup {id} |-> IF i = id THEN meta ELSE s[i]]
\* A delete that removes one of the ids and leaves the others.
DeleteIdsOneOnly(s, ids) ==
    IF ids \cap DOMAIN s = {} THEN s
    ELSE LET gone == CHOOSE i \in ids \cap DOMAIN s : TRUE
         IN  [i \in DOMAIN s \ {gone} |-> s[i]]

DeleteIds(s, ids) == [i \in DOMAIN s \ ids |-> s[i]]
\* ids of the store under a prefix (<<>> is a prefix of every id)
IdsWithPrefix(s, prefix) == {i \in DOMAIN s : StartsWith(i, prefix)}
\* index.fetch([id]).records as a sequence of {id, metadata}
FetchOne(s, id) == IF id \in DOMAIN s THEN <<[id |-> id, metadata |-> s[id]]>> ELSE <<>>

\* All orderings of a finite set, as sequences.
Perms(S) == {q \in [1..Cardinality(S) -> S] : \A i, j \in 1..Cardinality(S) : i # j => q[i] # q[j]}
\* The pages the store may return for the ids `rest` still to be listed: the
\* first k of them in any order, k at most limit.
Pages(rest, limit) ==
    IF rest = {} THEN {<<>>}
    ELSE UNION {Perms(P) : P \in {Q \in SUBSET rest :
                    Cardinality(Q) = Min(Min(limit, MaxPage), Cardinality(rest))}}

\* ---------------------------------------------------------------------------
\* State
\* ---------------------------------------------------------------------------
VARIABLES
    store,   \* the vector store: record id -> metadata
    urls,    \* the module-level `urls` array of src/app/api/urls/route.ts
    now,     \* the last instant read from the clock
    req,     \* the requests: handler, position, locals, response
    web,     \* what the web answers to a fetch of the URL to ingest
    admin,   \* the admin page: its React state and the calls it has issued
    messageStore,  \* messageStore.messages, the array of the singleton
    chats,   \* the conversations: the client's messages and the turn under way
    env,     \* process.env: the value of each variable, Undefined when unset
    proc,    \* the chat route's module, the collaborators used, the calls sent
    lookup,  \* a call of getWebsiteInfo: its position, the matches, its result
    handoff, \* a call of handoffToAgent: its position, the ticket request, its result
    form     \* the admin page's content form and the error it shows for it

\* What the route handlers of the knowledge base read and write.
routeVars == <<store, urls, now, req, web>>
\* What they never change.
beyondRoutes == <<web, admin, messageStore, chats, env, proc, lookup, handoff, form>>
\* What the chat route and its tools read and write.
chatVars == <<messageStore, chats>>
\* The environment and what depends on it.
configVars == <<env, proc>>
\* The calls of the tools taken alone, and the content form.
sideVars == <<lookup, handoff, form>>
vars == <<store, urls, now, req, web, admin, messageStore, chats, env, proc, lookup, handoff,
          form>>

NoResp == [status |-> 0, body |-> <<>>]
ZeroCalls == [scrape |-> 0, embed |-> 0, upsert |-> 0, list |-> 0, fetch |-> 0, delete |-> 0]

\* A request that has not arrived. `solo` records that no other request was
\* in flight at any moment of this request's life.
Idle == [kind |-> "idle", pc |-> "idle", in |-> <<>>, id |-> NoId, metas |-> <<>>,
         tasks |-> <<>>, listed |-> <<>>, seen |-> {}, pending |-> {},
         fetched |-> <<>>, thrown |-> "none", resp |-> NoResp, calls |-> ZeroCalls,
         solo |-> TRUE]

InFlight(q) == q.pc \notin {"idle", "done"}
Arrives(r) == req[r].pc = "idle" /\ (IF r = 1 THEN TRUE ELSE req[r - 1].kind # "idle")

\* Request r arrives and runs to its first suspension point, becoming rec.
Begin(r, rec) ==
    req' = [q \in Requests |->
              IF q = r
              THEN [rec EXCEPT !.solo = \A o \in Requests \ {r} : ~InFlight(req[o])]
              ELSE IF InFlight(rec) /\ InFlight(req[q])
                   THEN [req[q] EXCEPT !.solo = FALSE]
                   ELSE req[q]]

\* Instants the clock can show at a read that follows a read of t. The clock
\* is read once in each run of a handler between two suspension points.
Later(t) == {i \in Instants : i >= t}

Respond(status, body) == [status |-> status, body |-> body]
ErrorBody(msg) == [error |-> msg]
Bump(calls, what) == [calls EXCEPT ![what] = @ + 1]

Meta(url, description, content, t, isUrl, type, filename, fileType) ==
    [url |-> url, description |-> description, content |-> content,
     timestamp |-> ToISOString(t), isUrl |-> isUrl, type |-> type,
     filename |-> filename, fileType |-> fileType]

\* An addressing that counts the chunks from 1.
ChunkIdFromOne(baseId, i) == baseId \o ChunkSep \o NumToString(i + 1)

\* `${baseId}_chunk${i}`
ChunkId(baseId, i) == baseId \o ChunkSep \o NumToString(i)
\* `doc_${Date.now()}`
DocBaseId(t) == DocTag \o NumToString(t)

\* An HTTP response to the fetch of scrapeUrl: a status and the elements of the
\* document's body, each a tag and its text.
Element(tag, text) == [tag |-> tag, text |-> text]
OkPage == [status |-> 200, html |-> <<Element("script", "code"), Element("p", "page")>>]
BlankPage == [status |-> 200, html |-> <<Element("style", "css"), Element("p", " ")>>]
NotFoundPage == [status |-> 404, html |-> <<Element("h1", "Not"), Element("p", "Found")>>]
ServerErrorPage == [status |-> 500, html |-> <<Element("p", "Error")>>]
WebResponses == {OkPage, BlankPage, NotFoundPage, ServerErrorPage}

\* $('body').text() after the script and style elements are removed, with
\* white space collapsed and trimmed: the words of the body, in order.
RECURSIVE BodyText(_)
BodyText(html) ==
    IF html = <<>> THEN <<>>
    ELSE IF Head(html).tag \in {"script", "style"} \/ Head(html).text = " "
         THEN BodyText(Tail(html))
         ELSE <<Head(html).text>> \o BodyText(Tail(html))

\* scrapeUrl on a fetch that resolved: the text of the body, whatever the
\* status of the response.
ScrapeUrl(response) == BodyText(response.html)

\* The conversations, and a conversation before its first turn: the client
\* holds the greeting (initialMessages of useChat).
Conversations == {"A", "B"}
Greeting == [id |-> <<"greeting">>, role |-> "assistant", content |-> "Hi! I'm Ava"]
NoTicket == [description |-> <<>>, sources |-> <<>>, by |-> <<>>]
NewChat == [messages |-> <<Greeting>>, pc |-> "idle", turn |-> 0, posted |-> <<>>,
            toolCalls |-> 0, found |-> FALSE, ticket |-> NoTicket]
\* Nobody chats.
NoChat ==
    /\ messageStore = <<>>
    /\ chats = [c \in Conversations |-> NewChat]

\* The environment variables of the ticketing system and of the e-commerce
\* platform.
EnvNames == {"ZENDESK_SUBDOMAIN", "ZENDESK_EMAIL", "ZENDESK_API_TOKEN",
             "SHOPIFY_SHOP_DOMAIN", "SHOPIFY_ACCESS_TOKEN"}
\* A process before the first request to its chat route.
NewProc == [chatRoute |-> "unloaded", error |-> "", zendeskService |-> Undefined,
            used |-> {}, calls |-> {}]
\* No call of getWebsiteInfo, none of handoffToAgent; initialState of
\* useContentForm, no error shown.
NoHandoff == [pc |-> "idle", in |-> <<>>, description |-> <<>>, outcome |-> <<>>,
              created |-> <<>>, result |-> <<>>]
NoLookup == [pc |-> "idle", matches |-> <<>>, thrown |-> "none", result |-> <<>>]
\* null where a File is expected.
NullFile == [type |-> Null, size |-> 0, name |-> Null, chunks |-> 0]
initialState == [url |-> [value |-> "", description |-> ""],
                 document |-> [file |-> NullFile, description |-> ""]]
\* `selected` is the file last chosen in the file input, `returned` what
\* handleFileSelect returned for it, `dispatched` the last action dispatched
\* and `tick` changes at every dispatch.
NewForm == [state |-> initialState, error |-> Null, selected |-> NullFile, returned |-> Null,
            dispatched |-> [type |-> "none", payload |-> Null], tick |-> FALSE]
Aside ==
    /\ lookup = NoLookup
    /\ handoff = NoHandoff
    /\ form = NewForm

\* Every variable is set and no module has been loaded.
Configured ==
    /\ env = [n \in EnvNames |-> "value"]
    /\ proc = NewProc

\* No admin page is open.
NoPage == [savedItems |-> <<>>, error |-> Null, isLoading |-> FALSE,
           showDeleteConfirm |-> NullId, fetchCalls |-> 0, deleteCalls |-> <<>>,
           handled |-> {}, clicked |-> NullId, tick |-> FALSE]

\* The stores a new process can find: the store outlives the process, so it
\* holds what earlier ingestions wrote and earlier deletions left. For each
\* earlier instant: the first chunk of a document ingested then and a URL
\* record, each present or not.
PriorRecords ==
    UNION {{[id |-> ChunkId(DocBaseId(t), i),
             meta |-> Meta(Undefined, "old doc", "text", t, FALSE, "document",
                           "old.txt", "text/plain")] : i \in {0}}
           \cup {[id |-> NumToString(t),
                   meta |-> Meta("http://old", "old url", <<"page">>, t, TRUE,
                                 Undefined, Undefined, Undefined)]}
           : t \in PriorInstants}
StoreOf(recs) == [i \in {x.id : x \in recs} |-> (CHOOSE x \in recs : x.id = i).meta]
PriorStores == {StoreOf(recs) : recs \in SUBSET PriorRecords}

Init ==
    /\ store \in PriorStores
    /\ urls = <<>>
    /\ now = CHOOSE t \in Instants : \A u \in Instants : t <= u
    /\ req = [r \in Requests |-> Idle]
    /\ web = OkPage
    /\ admin = NoPage
    /\ NoChat
    /\ Configured
    /\ Aside

\* The handler returns: its answer stays, its working variables are released.
Finish(q, resp) ==
    [q EXCEPT !.pc = "done", !.resp = resp, !.metas = <<>>, !.listed = <<>>,
              !.seen = {}, !.pending = {}, !.fetched = <<>>]

\* A catch block that answers as if nothing had failed.
CaughtSwallowed(q, thrown, msg) ==
    Finish([q EXCEPT !.thrown = thrown], Respond(200, [success |-> TRUE]))

\* The catch block of a handler: `thrown` is the error caught (the call that
\* failed), and the request ends with a 500 answer.
Caught(q, thrown, msg) == Finish([q EXCEPT !.thrown = thrown], Respond(500, ErrorBody(msg)))

\* ---------------------------------------------------------------------------
\* POST /api/urls
\* ---------------------------------------------------------------------------
UrlInputs == {Undefined, "", "http://x"}
DescriptionInputs == {Undefined, "", "desc"}
\* A validation that forgets the description.
UrlInvalidUrlOnly(url, description) == ~Truthy(url)

UrlInvalid(url, description) == ~Truthy(url) \/ ~Truthy(description)

\* The request is read and validated; a valid one calls scrapeUrl.
UrlPostStart(r) ==
    /\ Arrives(r)
    /\ \E url \in UrlInputs, description \in DescriptionInputs :
         LET q == [Idle EXCEPT !.kind = "url",
                               !.in = [url |-> url, description |-> description]]
         IN  IF UrlInvalid(url, description)
             THEN Begin(r, Finish(q, Respond(400, ErrorBody("URL and description are required"))))
             ELSE Begin(r, [q EXCEPT !.pc = "scrape", !.calls = Bump(@, "scrape")])
    /\ UNCHANGED <<store, urls, now>>

\* scrapeUrl settles: the fetch resolved with the answer of the web, or it
\* rejected; on success embedQuery is called with the text.
UrlScraped(r) ==
    /\ req[r].kind = "url" /\ req[r].pc = "scrape"
    /\ \/ req' = [req EXCEPT ![r].pc = "embed",
                               ![r].in = [url |-> req[r].in.url,
                                          description |-> req[r].in.description,
                                          content |-> ScrapeUrl(web)],
                               ![r].calls = Bump(@, "embed")]
       \/ req' = [req EXCEPT ![r] = Caught(@, "scrape", "Failed to add URL")]
    /\ UNCHANGED <<store, urls, now>>

\* embedQuery settles; on success the id is taken from the clock and the
\* record is sent to the store.
UrlEmbedded(r) ==
    /\ req[r].kind = "url" /\ req[r].pc = "embed"
    /\ \/ \E t \in Later(now) :
            /\ now' = t
            /\ req' = [req EXCEPT
                   ![r].pc = "upsert",
                   ![r].id = NumToString(t),
                   ![r].metas = <<Meta(req[r].in.url, req[r].in.description,
                                       req[r].in.content, t, TRUE, Undefined,
                                       Undefined, Undefined)>>,
                   ![r].calls = Bump(@, "upsert")]
       \/ /\ req' = [req EXCEPT ![r] = Caught(@, "embed", "Failed to add URL")]
          /\ now' = now
    /\ UNCHANGED <<store, urls>>

\* index.upsert settles; on success the item joins `urls` and is returned.
UrlUpserted(r) ==
    /\ req[r].kind = "url" /\ req[r].pc = "upsert"
    /\ \/ \E t \in Later(now) :
            LET newUrl == [id |-> req[r].id, url |-> req[r].in.url,
                           description |-> req[r].in.description, createdAt |-> t]
            IN  /\ store' = Upsert(store, req[r].id, req[r].metas[1])
                /\ urls' = Append(urls, newUrl)
                /\ now' = t
                /\ req' = [req EXCEPT ![r] = Finish(@, Respond(200, newUrl))]
       \/ /\ req' = [req EXCEPT ![r] = Caught(@, "upsert", "Failed to add URL")]
          /\ UNCHANGED <<store, urls, now>>

\* ---------------------------------------------------------------------------
\* POST /api/documents
\* ---------------------------------------------------------------------------
NoFile == [type |-> Undefined, size |-> 0, name |-> Undefined, chunks |-> 0]
TextFile(size, chunks) ==
    [type |-> "text/plain", size |-> size, name |-> "a.txt", chunks |-> chunks]
\* The uploads of the model: plain-text files of the largest accepted size
\* whose text splits into 0..MaxChunks chunks, with a description; such a file
\* with an empty description; a file one byte too large; a file of another
\* type; and a form without file.
Uploads ==
    {[file |-> TextFile(MAX_FILE_SIZE, n), description |-> "doc"] : n \in 0..MaxChunks}
    \cup {[file |-> TextFile(MAX_FILE_SIZE, 1), description |-> ""],
          [file |-> TextFile(MAX_FILE_SIZE + 1, 1), description |-> "doc"],
          [file |-> [type |-> "application/pdf", size |-> 1, name |-> "a.pdf",
                     chunks |-> 1], description |-> "doc"],
          [file |-> NoFile, description |-> "doc"]}

\* A gate that also refuses a file of exactly the largest size.
DocRejectionInclusive(file) ==
    IF file = NoFile THEN "No file provided"
    ELSE IF file.type \notin SUPPORTED_TYPES THEN "Unsupported file type"
    ELSE IF file.size >= MAX_FILE_SIZE THEN "File too large (max 10MB)"
    ELSE ""

\* The 400 answers of the handler, in the order it tests for them; "" when the
\* upload is accepted.
DocRejection(file) ==
    IF file = NoFile THEN "No file provided"
    ELSE IF file.type \notin SUPPORTED_TYPES THEN "Unsupported file type"
    ELSE IF file.size > MAX_FILE_SIZE THEN "File too large (max 10MB)"
    ELSE ""

\* processDocument: one chunk per piece of the text, each with the file's
\* name and type and the time of the split.
ProcessDocument(file, t) ==
    [i \in 1..file.chunks |->
        [content |-> <<"chunk", i - 1>>,
         metadata |-> [filename |-> file.name, fileType |-> file.type,
                       timestamp |-> t]]]

\* The metadata upserted for a chunk: that of the chunk, the description, the
\* type and the content.
ChunkMeta(chunk, description) ==
    Meta(Undefined, description, chunk.content, chunk.metadata.timestamp, FALSE,
         "document", chunk.metadata.filename, chunk.metadata.fileType)

\* A join that is fulfilled as soon as one task is (Promise.any).
PromiseAny(tasks) ==
    IF \E i \in DOMAIN tasks : tasks[i] = "fulfilled" THEN "fulfilled"
    ELSE IF tasks # <<>> /\ \A i \in DOMAIN tasks : tasks[i] = "rejected" THEN "rejected"
    ELSE "pending"

\* Promise.all over the chunk tasks.
PromiseAll(tasks) ==
    IF \E i \in DOMAIN tasks : tasks[i] = "rejected" THEN "rejected"
    ELSE IF \A i \in DOMAIN tasks : tasks[i] = "fulfilled" THEN "fulfilled"
    ELSE "pending"

Settled(tasks) == \A i \in DOMAIN tasks : tasks[i] \in {"fulfilled", "rejected"}

\* The reaction to Promise.all settling, run right after a task settles: the
\* first settlement that decides Promise.all produces the answer; the handler
\* is over once no task is in flight.
DocAfter(q, tasks) ==
    [q EXCEPT !.tasks = tasks,
              !.thrown = IF q.resp = NoResp /\ PromiseAll(tasks) = "rejected"
                         THEN "chunk" ELSE q.thrown,
              !.pc = IF Settled(tasks) THEN "done" ELSE "tasks",
              !.metas = IF Settled(tasks) THEN <<>> ELSE q.metas,
              !.resp = IF q.resp # NoResp THEN q.resp
                       ELSE IF PromiseAll(tasks) = "rejected"
                            THEN Respond(500, ErrorBody("Failed to process document"))
                       ELSE IF PromiseAll(tasks) = "fulfilled"
                            THEN Respond(200, [success |-> TRUE, id |-> q.id,
                                               filename |-> q.in.file.name,
                                               description |-> q.in.description,
                                               chunks |-> Len(tasks)])
                       ELSE NoResp]

\* The form is read and validated; an accepted file is split, the base id is
\* taken from the clock and one task per chunk is started, each calling
\* embedQuery.
DocPostStart(r) ==
    /\ Arrives(r)
    /\ \E up \in Uploads :
         LET file == up.file
             description == up.description
             q == [Idle EXCEPT !.kind = "doc", !.in = up]
         IN  IF DocRejection(file) # ""
             THEN /\ Begin(r, Finish(q, Respond(400, ErrorBody(DocRejection(file)))))
                  /\ now' = now
             ELSE \E t \in Later(now) :
                    LET chunks == ProcessDocument(file, t)
                    IN  /\ now' = t
                        /\ Begin(r, DocAfter(
                              [q EXCEPT !.id = DocBaseId(t),
                                        !.metas = [i \in DOMAIN chunks |->
                                                     ChunkMeta(chunks[i], description)],
                                        !.calls = [@ EXCEPT !.embed = Len(chunks)]],
                              [i \in DOMAIN chunks |-> "embedding"]))
    /\ UNCHANGED <<store, urls>>

\* embedQuery of chunk i settles; on success the chunk's record is sent to the
\* store.
DocChunkEmbedded(r, i) ==
    /\ req[r].kind = "doc" /\ req[r].pc = "tasks"
    /\ i \in DOMAIN req[r].tasks /\ req[r].tasks[i] = "embedding"
    /\ \/ req' = [req EXCEPT ![r] = DocAfter([@ EXCEPT !.calls = Bump(@, "upsert")],
                                             [req[r].tasks EXCEPT ![i] = "upserting"])]
       \/ req' = [req EXCEPT ![r] = DocAfter(@, [req[r].tasks EXCEPT ![i] = "rejected"])]
    /\ UNCHANGED <<store, urls, now>>

\* A handler that takes back the chunks of the document when an upsert fails.
StoreAfterChunkRollback(s, q, i, ok) ==
    IF ok THEN Upsert(s, ChunkId(q.id, i - 1), q.metas[i])
    ELSE DeleteIds(s, IdsWithPrefix(s, q.id \o ChunkSep))

\* The store after the upsert of the i-th chunk of q settled: a failed upsert
\* is only reported, nothing written before it is taken back.
StoreAfterChunk(s, q, i, ok) ==
    IF ok THEN Upsert(s, ChunkId(q.id, i - 1), q.metas[i]) ELSE s

\* index.upsert of chunk i settles.
DocChunkUpserted(r, i) ==
    /\ req[r].kind = "doc" /\ req[r].pc = "tasks"
    /\ i \in DOMAIN req[r].tasks /\ req[r].tasks[i] = "upserting"
    /\ \E ok \in BOOLEAN :
          /\ store' = StoreAfterChunk(store, req[r], i, ok)
          /\ req' = [req EXCEPT ![r] = DocAfter(@, [req[r].tasks EXCEPT
                                            ![i] = IF ok THEN "fulfilled" ELSE "rejected"])]
    /\ UNCHANGED <<urls, now>>

\* ---------------------------------------------------------------------------
\* DELETE /api/urls
\* ---------------------------------------------------------------------------
\* The ids a client sends: the ids of the items the listing can show (document
\* base ids and URL record ids), and a body without id.
DeleteInputs ==
    {DocBaseId(t) : t \in Instants \cup PriorInstants}
    \cup {NumToString(t) : t \in Instants \cup PriorInstants}
    \cup {NoId}

\* A test that takes every id for a document id.
IsDocumentIdAlways(id) == TRUE

IsDocumentId(id) == StartsWith(id, DocTag)
\* The prefix under which the chunks to delete are listed.
DeletePrefix(id) == SplitFirst(id, ChunkSep)

\* urls.filter(url => url.id !== id)
RECURSIVE FilterUrls(_, _)
FilterUrls(list, id) ==
    IF list = <<>> THEN <<>>
    ELSE IF Head(list).id # id THEN <<Head(list)>> \o FilterUrls(Tail(list), id)
    ELSE FilterUrls(Tail(list), id)

\* A listing loop that keeps only the page it received last.
CollectLast(all, page) == page

\* allChunks.push(...response.vectors), allVectors.push(...response.vectors)
Collect(all, page) == all \o page

\* A handler that answers 404 when it issued no delete.
DeleteSucceededOrNotFound(q) ==
    IF q.calls.delete = 0
    THEN Finish(q, Respond(404, ErrorBody("Not found")))
    ELSE Finish(q, Respond(200, [success |-> TRUE]))

DeleteSucceeded(q) == Finish(q, Respond(200, [success |-> TRUE]))

\* The id is read; a document id starts the listing of its chunks, any other
\* id is deleted as a single record. Without id, id.startsWith throws.
DeleteStart(r) ==
    /\ Arrives(r)
    /\ \E id \in DeleteInputs :
         LET q == [Idle EXCEPT !.kind = "delete", !.in = [id |-> id]]
         IN  IF id = NoId
             THEN Begin(r, Caught(q, "TypeError", "Failed to delete item"))
             ELSE IF IsDocumentId(id)
             THEN Begin(r, [q EXCEPT !.pc = "list", !.id = DeletePrefix(id),
                                     !.calls = Bump(@, "list")])
             ELSE Begin(r, [q EXCEPT !.pc = "deleteOne", !.calls = Bump(@, "delete")])
    /\ UNCHANGED <<store, urls, now>>

\* A page of the prefix listing arrives. With a continuation token the next
\* page is requested; without, the listed ids are deleted in one batch, or
\* nothing is deleted when there are none.
DeleteListed(r) ==
    /\ req[r].kind = "delete" /\ req[r].pc = "list"
    /\ \/ \E page \in Pages(IdsWithPrefix(store, req[r].id) \ req[r].seen, ListLimit) :
            LET listed == Collect(req[r].listed, page)
                seen   == req[r].seen \cup Range(page)
                more   == IdsWithPrefix(store, req[r].id) \ seen # {}
            IN  IF more
                THEN /\ req' = [req EXCEPT ![r].listed = listed, ![r].seen = seen,
                                           ![r].calls = Bump(@, "list")]
                     /\ urls' = urls
                ELSE IF Len(listed) > 0
                THEN /\ req' = [req EXCEPT ![r].listed = listed, ![r].seen = seen,
                                           ![r].pc = "deleteMany",
                                           ![r].calls = Bump(@, "delete")]
                     /\ urls' = urls
                ELSE /\ req' = [req EXCEPT ![r] = DeleteSucceeded(@)]
                     /\ urls' = FilterUrls(urls, req[r].in.id)
       \/ /\ req' = [req EXCEPT ![r] = Caught(@, "list", "Failed to delete item")]
          /\ urls' = urls
    /\ UNCHANGED <<store, now>>

\* index.deleteMany settles.
DeleteManyDone(r) ==
    /\ req[r].kind = "delete" /\ req[r].pc = "deleteMany"
    /\ \/ /\ store' = DeleteIds(store, Range(req[r].listed))
          /\ urls' = FilterUrls(urls, req[r].in.id)
          /\ req' = [req EXCEPT ![r] = DeleteSucceeded(@)]
       \/ /\ req' = [req EXCEPT ![r] = Caught(@, "delete", "Failed to delete item")]
          /\ UNCHANGED <<store, urls>>
    /\ now' = now

\* index.deleteOne settles.
DeleteOneDone(r) ==
    /\ req[r].kind = "delete" /\ req[r].pc = "deleteOne"
    /\ \/ /\ store' = DeleteIds(store, {req[r].in.id})
          /\ urls' = FilterUrls(urls, req[r].in.id)
          /\ req' = [req EXCEPT ![r] = DeleteSucceeded(@)]
       \/ /\ req' = [req EXCEPT ![r] = Caught(@, "delete", "Failed to delete item")]
          /\ UNCHANGED <<store, urls>>
    /\ now' = now

\* ---------------------------------------------------------------------------
\* GET /api/urls and the client's fetchContent
\* ---------------------------------------------------------------------------
\* vectorResponses.flatMap(res => Object.values(res.records)), in the order of
\* the listed ids. Every record of the store has metadata, so the filter on
\* record.metadata keeps them all.
RECURSIVE FlatMap(_)
FlatMap(fetched) ==
    IF fetched = <<>> THEN <<>> ELSE Head(fetched) \o FlatMap(Tail(fetched))

\* All fetches are out; the answer is produced when the last one arrives.
GetAfter(q, fetched, pending) ==
    IF pending = {}
    THEN Finish(q, Respond(200, [vectors |-> FlatMap(fetched)]))
    ELSE [q EXCEPT !.fetched = fetched, !.pending = pending]

\* The listing of all ids starts (no prefix).
GetStart(r) ==
    /\ Arrives(r)
    /\ Begin(r, [Idle EXCEPT !.kind = "get", !.pc = "list", !.id = <<>>,
                             !.calls = Bump(@, "list")])
    /\ UNCHANGED <<store, urls, now>>

\* A page of the listing arrives. With a continuation token the next page is
\* requested; without, one fetch per listed id is sent.
GetListed(r) ==
    /\ req[r].kind = "get" /\ req[r].pc = "list"
    /\ \/ \E page \in Pages(IdsWithPrefix(store, <<>>) \ req[r].seen, ListLimit) :
            LET listed == Collect(req[r].listed, page)
                seen   == req[r].seen \cup Range(page)
                more   == IdsWithPrefix(store, <<>>) \ seen # {}
            IN  IF more
                THEN req' = [req EXCEPT ![r].listed = listed, ![r].seen = seen,
                                        ![r].calls = Bump(@, "list")]
                ELSE req' = [req EXCEPT ![r] =
                        GetAfter([@ EXCEPT !.listed = listed, !.seen = seen, !.pc = "fetch",
                                           !.calls = [@ EXCEPT !.fetch = Len(listed)]],
                                 [i \in 1..Len(listed) |-> <<>>], 1..Len(listed))]
       \/ req' = [req EXCEPT ![r] = Caught(@, "list", "Failed to fetch items")]
    /\ UNCHANGED <<store, urls, now>>

\* The fetch of the i-th listed id settles.
GetFetched(r, i) ==
    /\ req[r].kind = "get" /\ req[r].pc = "fetch"
    /\ i \in req[r].pending
    /\ \/ req' = [req EXCEPT ![r] =
                    GetAfter(@, [req[r].fetched EXCEPT ![i] = FetchOne(store, req[r].listed[i])],
                             req[r].pending \ {i})]
       \/ req' = [req EXCEPT ![r] = Caught(@, "fetch", "Failed to fetch items")]
    /\ UNCHANGED <<store, urls, now>>

\* fetchContent: the listing grouped into items, documents by the part of the
\* id before "_chunk" (the first chunk met supplies the item), URL records one
\* item each; a Map keeps the order of first insertion.
\* A grouping that keys a document by the whole record id.
DocItemWholeId(v) ==
    [id |-> v.id, type |-> "document", url |-> Undefined,
     description |-> v.metadata.description, filename |-> v.metadata.filename,
     createdAt |-> ParseDate(v.metadata.timestamp)]

DocItem(v) ==
    [id |-> SplitFirst(v.id, ChunkSep), type |-> "document", url |-> Undefined,
     description |-> v.metadata.description, filename |-> v.metadata.filename,
     createdAt |-> ParseDate(v.metadata.timestamp)]
UrlItem(v) ==
    [id |-> v.id, type |-> "url", url |-> v.metadata.url,
     description |-> v.metadata.description, filename |-> Undefined,
     createdAt |-> ParseDate(v.metadata.timestamp)]

\* A map in which no key is ever found.
HasKeyNever(items, k) == FALSE

\* documents.has(docId)
HasKey(items, k) == \E j \in DOMAIN items : items[j].id = k
MapSet(items, item) ==
    IF HasKey(items, item.id)
    THEN [j \in DOMAIN items |-> IF items[j].id = item.id THEN item ELSE items[j]]
    ELSE Append(items, item)

RECURSIVE GroupInto(_, _)
GroupInto(items, vectors) ==
    IF vectors = <<>> THEN items
    ELSE LET v == Head(vectors)
         IN  IF ToLowerCase(v.metadata.type) = "document"
             THEN IF ~HasKey(items, SplitFirst(v.id, ChunkSep))
                  THEN GroupInto(MapSet(items, DocItem(v)), Tail(vectors))
                  ELSE GroupInto(items, Tail(vectors))
             ELSE IF v.metadata.isUrl
             THEN GroupInto(MapSet(items, UrlItem(v)), Tail(vectors))
             ELSE GroupInto(items, Tail(vectors))

fetchContent(vectors) == GroupInto(<<>>, vectors)

Next ==
    \E r \in Requests :
        \/ UrlPostStart(r) /\ UNCHANGED beyondRoutes
        \/ UrlScraped(r) /\ UNCHANGED beyondRoutes
        \/ UrlEmbedded(r) /\ UNCHANGED beyondRoutes
        \/ UrlUpserted(r) /\ UNCHANGED beyondRoutes
        \/ DocPostStart(r) /\ UNCHANGED beyondRoutes
        \/ \E i \in 1..MaxChunks : DocChunkEmbedded(r, i) /\ UNCHANGED beyondRoutes
        \/ \E i \in 1..MaxChunks : DocChunkUpserted(r, i) /\ UNCHANGED beyondRoutes
        \/ DeleteStart(r) /\ UNCHANGED beyondRoutes
        \/ DeleteListed(r) /\ UNCHANGED beyondRoutes
        \/ DeleteManyDone(r) /\ UNCHANGED beyondRoutes
        \/ DeleteOneDone(r) /\ UNCHANGED beyondRoutes
        \/ GetStart(r) /\ UNCHANGED beyondRoutes
        \/ GetListed(r) /\ UNCHANGED beyondRoutes
        \/ \E i \in DOMAIN req[r].listed : GetFetched(r, i) /\ UNCHANGED beyondRoutes

Spec == Init /\ [][Next]_vars

\* ---------------------------------------------------------------------------
\* The listing loops against a store that answers
\* ---------------------------------------------------------------------------
\* The three chunks of a document ingested earlier.
ListingRecords ==
    {[id |-> ChunkId(DocBaseId(t), i),
      meta |-> Meta(Undefined, "old doc", "text", t, FALSE, "document",
                    "old.txt", "text/plain")] : t \in PriorInstants, i \in 0..2}

ListingInit ==
    /\ store \in {StoreOf(recs) : recs \in SUBSET ListingRecords}
    /\ urls = <<>>
    /\ now = CHOOSE t \in Instants : \A u \in Instants : t <= u
    /\ req = [r \in Requests |-> Idle]
    /\ web = OkPage
    /\ admin = NoPage
    /\ NoChat
    /\ Configured
    /\ Aside

\* The handlers that list: GET, and DELETE with both its branches.
ListingNext ==
    \E r \in Requests :
        \/ DeleteStart(r) /\ UNCHANGED beyondRoutes
        \/ DeleteListed(r) /\ UNCHANGED beyondRoutes
        \/ DeleteManyDone(r) /\ UNCHANGED beyondRoutes
        \/ DeleteOneDone(r) /\ UNCHANGED beyondRoutes
        \/ GetStart(r) /\ UNCHANGED beyondRoutes
        \/ GetListed(r) /\ UNCHANGED beyondRoutes
        \/ \E i \in DOMAIN req[r].listed : GetFetched(r, i) /\ UNCHANGED beyondRoutes

\* The store answers every listPaginated call, with a page or with an error:
\* the await of the listing loop does not stay pending forever.
ListingSpec ==
    /\ ListingInit /\ [][ListingNext]_vars
    /\ \A r \in Requests : /\ WF_vars(GetListed(r) /\ UNCHANGED beyondRoutes)
                            /\ WF_vars(DeleteListed(r) /\ UNCHANGED beyondRoutes)

\* ---------------------------------------------------------------------------
\* The admin page (AdminPage, ContentList) and the content service it calls
\* ---------------------------------------------------------------------------
\* `admin` holds the state of the page (savedItems, error, isLoading,
\* showDeleteConfirm), the calls it has issued to the content service
\* (fetchCalls counts fetchContent; deleteCalls lists the ids given to
\* deleteItem), the requests whose answer it has received (handled), and the
\* last click on a delete button (clicked; tick flips with every click).

\* Records as VectorMetadata allows them: isUrl is optional, and a URL record
\* may carry only its url. Such a record, next to the records of earlier
\* ingestions.
LegacyInstants == {2}
LegacyRecords ==
    {[id |-> NumToString(t),
      meta |-> Meta("http://legacy", "legacy url", <<"page">>, t, FALSE,
                    Undefined, Undefined, Undefined)] : t \in LegacyInstants}
AdminStores == {StoreOf(recs) : recs \in SUBSET (PriorRecords \cup LegacyRecords)}

\* response.ok
Ok(resp) == resp.status >= 200 /\ resp.status <= 299

\* fetchItems up to its await: the list shows the loader and fetchContent is
\* called.
FetchItemsCalled(p) == [p EXCEPT !.isLoading = TRUE, !.fetchCalls = @ + 1]

\* The page once the effect of its first render has run.
MountedPage == FetchItemsCalled([NoPage EXCEPT !.isLoading = TRUE])

\* A catch block of fetchItems that empties the list.
FetchFailedCleared(p) ==
    [p EXCEPT !.savedItems = <<>>, !.error = "Failed to fetch items", !.isLoading = FALSE]

\* The catch and finally blocks of fetchItems.
FetchFailed(p) == [p EXCEPT !.error = "Failed to fetch items", !.isLoading = FALSE]

\* fetchItems after fetchContent returned the items.
FetchSucceeded(p, vectors) ==
    [p EXCEPT !.savedItems = fetchContent(vectors), !.isLoading = FALSE]

\* The number of requests of a kind that reached the server.
Served(kind) == Cardinality({r \in Requests : req[r].kind = kind})

\* The ids of the delete buttons on the page.
ShownIds(p) == IF p.isLoading THEN {} ELSE {p.savedItems[j].id : j \in DOMAIN p.savedItems}

\* A handler that deletes at the first click.
AwaitsConfirmNever(p, id) == FALSE

\* handleDelete: the click is a first click on this item.
AwaitsConfirm(p, id) == p.showDeleteConfirm # id

\* A click on the delete button of item id: handleDelete(id) up to its return
\* or its await.
HandleDelete(id) ==
    /\ id \in ShownIds(admin)
    /\ LET p == [admin EXCEPT !.clicked = id, !.tick = ~@]
       IN  IF AwaitsConfirm(admin, id)
           THEN admin' = [p EXCEPT !.showDeleteConfirm = id]
           ELSE /\ Len(admin.deleteCalls) < MaxDeletes
                /\ admin' = [p EXCEPT !.deleteCalls = Append(@, id)]
    /\ UNCHANGED <<routeVars, chatVars, configVars, sideVars>>

\* A click on Refresh (disabled while loading).
Refresh ==
    /\ ~admin.isLoading
    /\ admin' = FetchItemsCalled(admin)
    /\ UNCHANGED <<routeVars, chatVars, configVars, sideVars>>

\* The GET of a fetchContent call reaches the server.
AdminGetStart(r) ==
    /\ Served("get") < admin.fetchCalls
    /\ GetStart(r)
    /\ UNCHANGED beyondRoutes

\* The DELETE of a deleteItem call reaches the server, with the id of the call.
AdminDeleteStart(r) ==
    /\ Served("delete") < Len(admin.deleteCalls)
    /\ DeleteStart(r)
    /\ req'[r].in.id = admin.deleteCalls[Served("delete") + 1]
    /\ UNCHANGED beyondRoutes

\* The answer to a GET arrives: fetchContent throws on an answer that is not
\* ok and groups the vectors of one that is; fetchItems resumes.
FetchSettled(r) ==
    /\ req[r].kind = "get" /\ req[r].pc = "done" /\ r \notin admin.handled
    /\ LET p == [admin EXCEPT !.handled = @ \cup {r}]
       IN  admin' = IF Ok(req[r].resp)
                    THEN FetchSucceeded(p, req[r].resp.body.vectors)
                    ELSE FetchFailed(p)
    /\ UNCHANGED <<routeVars, chatVars, configVars, sideVars>>

\* The answer to a DELETE arrives: deleteItem throws on an answer that is not
\* ok; handleDelete resumes, clears the confirmation and calls fetchItems, or
\* reports the error.
DeleteSettled(r) ==
    /\ req[r].kind = "delete" /\ req[r].pc = "done" /\ r \notin admin.handled
    /\ LET p == [admin EXCEPT !.handled = @ \cup {r}]
       IN  admin' = IF Ok(req[r].resp)
                    THEN FetchItemsCalled([p EXCEPT !.showDeleteConfirm = NullId])
                    ELSE [p EXCEPT !.error = "Failed to delete item"]
    /\ UNCHANGED <<routeVars, chatVars, configVars, sideVars>>

AdminInit ==
    /\ store \in AdminStores
    /\ urls = <<>>
    /\ now = CHOOSE t \in Instants : \A u \in Instants : t <= u
    /\ req = [r \in Requests |-> Idle]
    /\ web = OkPage
    /\ admin = MountedPage
    /\ NoChat
    /\ Configured
    /\ Aside

AdminNext ==
    \/ \E id \in DeleteInputs : HandleDelete(id)
    \/ Refresh
    \/ \E r \in Requests :
        \/ AdminGetStart(r)
        \/ GetListed(r) /\ UNCHANGED beyondRoutes
        \/ \E i \in DOMAIN req[r].listed : GetFetched(r, i) /\ UNCHANGED beyondRoutes
        \/ AdminDeleteStart(r)
        \/ DeleteListed(r) /\ UNCHANGED beyondRoutes
        \/ DeleteManyDone(r) /\ UNCHANGED beyondRoutes
        \/ DeleteOneDone(r) /\ UNCHANGED beyondRoutes
        \/ FetchSettled(r)
        \/ DeleteSettled(r)

AdminSpec == AdminInit /\ [][AdminNext]_vars

\* ---------------------------------------------------------------------------
\* URL ingestion against the web
\* ---------------------------------------------------------------------------
\* POST /api/urls alone, for each answer the web can give to the fetch.
UrlInit ==
    /\ store \in PriorStores
    /\ urls = <<>>
    /\ now = CHOOSE t \in Instants : \A u \in Instants : t <= u
    /\ req = [r \in Requests |-> Idle]
    /\ web \in WebResponses
    /\ admin = NoPage
    /\ NoChat
    /\ Configured
    /\ Aside

UrlNext ==
    \E r \in Requests :
        \/ UrlPostStart(r) /\ UNCHANGED beyondRoutes
        \/ UrlScraped(r) /\ UNCHANGED beyondRoutes
        \/ UrlEmbedded(r) /\ UNCHANGED beyondRoutes
        \/ UrlUpserted(r) /\ UNCHANGED beyondRoutes

UrlSpec == UrlInit /\ [][UrlNext]_vars

\* ---------------------------------------------------------------------------
\* The chat route, the message store and the handoff tool
\* ---------------------------------------------------------------------------
\* What a user writes.
Texts == {"a human agent please"}

\* crypto.randomUUID() of a message saved by turn n of conversation c: a value
\* no other saved message has.
Uuid(c, n, k) == <<c, n, k>>

\* A saveChat that stores every message it is given, then the answer.
SaveChatAll(stored, text, messages, c, n) ==
    stored \o [i \in DOMAIN messages |-> [messages[i] EXCEPT !.id = Uuid(c, n, "user")]]
           \o <<[id |-> Uuid(c, n, "assistant"), role |-> "assistant", content |-> text]>>

\* A saveChat that stores the greeting whatever the store holds.
SaveChatGreetingAgain(stored, text, messages, c, n) ==
    LET withGreeting ==
            IF Len(messages) > 0 /\ messages[1].role = "assistant"
            THEN Append(stored, [messages[1] EXCEPT !.id = Uuid(c, n, "greeting")])
            ELSE stored
    IN  IF Len(messages) > 0 /\ messages[Len(messages)].role = "user"
        THEN withGreeting
             \o <<[id |-> Uuid(c, n, "user"), role |-> "user",
                   content |-> messages[Len(messages)].content],
                  [id |-> Uuid(c, n, "assistant"), role |-> "assistant", content |-> text]>>
        ELSE withGreeting

\* messageStore.saveChat({text, messages}) in the onFinish of turn n of
\* conversation c: on the first save the greeting, then the last user message
\* and the answer.
SaveChat(stored, text, messages, c, n) ==
    LET withGreeting ==
            IF Len(stored) = 0 /\ Len(messages) > 0 /\ messages[1].role = "assistant"
            THEN Append(stored, [messages[1] EXCEPT !.id = Uuid(c, n, "greeting")])
            ELSE stored
    IN  IF Len(messages) > 0 /\ messages[Len(messages)].role = "user"
        THEN withGreeting
             \o <<[id |-> Uuid(c, n, "user"), role |-> "user",
                   content |-> messages[Len(messages)].content],
                  [id |-> Uuid(c, n, "assistant"), role |-> "assistant", content |-> text]>>
        ELSE withGreeting

\* A history that takes in the exchange under way.
HistorySourceWithTurn(stored, c, chat) == SaveChat(stored, "", chat.posted, c, chat.turn)

\* The messages getFormattedHistory formats for the handoff of a turn: those
\* of the store, whatever the turn has posted.
HistorySource(stored, c, chat) == stored

\* messageStore.getFormattedHistory(): one line `${role}: ${content}` per user
\* or assistant message.
RECURSIVE FormatLines(_)
FormatLines(stored) ==
    IF stored = <<>> THEN <<>>
    ELSE IF Head(stored).role \in {"user", "assistant"}
         THEN <<<<Head(stored).role, ": ", Head(stored).content>>>> \o FormatLines(Tail(stored))
         ELSE FormatLines(Tail(stored))
GetFormattedHistory(stored) ==
    IF Len(stored) = 0 THEN <<"No chat history available.">> ELSE FormatLines(stored)

\* The ids of the stored messages a formatted history was made from.
RECURSIVE IdsOf(_)
IdsOf(stored) ==
    IF stored = <<>> THEN <<>> ELSE <<Head(stored).id>> \o IdsOf(Tail(stored))

\* useChat appends the user's message and POSTs all messages to /api/chat;
\* streamText starts the turn.
ChatPost(c) ==
    /\ chats[c].pc = "idle" /\ chats[c].turn < MaxTurns
    /\ \E text \in Texts :
         LET sent == Append(chats[c].messages,
                            [id |-> <<c, chats[c].turn + 1>>, role |-> "user", content |-> text])
         IN  chats' = [chats EXCEPT ![c] = [@ EXCEPT !.messages = sent, !.posted = sent,
                                                      !.pc = "streaming", !.turn = @ + 1,
                                                      !.toolCalls = 0, !.found = FALSE,
                                                      !.ticket = NoTicket]]
    /\ UNCHANGED <<routeVars, admin, messageStore, configVars, sideVars>>

\* The language model calls handoffToAgent during the turn: execute reads the
\* formatted history and createTicket posts it; when the post succeeded the
\* tool result says so, and `ticket` is the ticket created for the turn, with
\* the stored messages its history was made from (sources) and the turn that
\* asked (by).
HandoffToAgent(c) ==
    /\ chats[c].pc = "streaming" /\ chats[c].toolCalls < MaxToolCalls
    /\ LET from == HistorySource(messageStore, c, chats[c])
           chatHistoryText == GetFormattedHistory(from)
           ticket == [description |-> <<"Reason for transfer: ", "Not specified",
                                        "Chat History:", chatHistoryText>>,
                      sources |-> IdsOf(from), by |-> <<c, chats[c].turn>>]
       IN  \E success \in BOOLEAN :
              chats' = [chats EXCEPT ![c].toolCalls = @ + 1, ![c].found = success,
                                     ![c].ticket = IF success THEN ticket ELSE @]
    /\ UNCHANGED <<routeVars, admin, messageStore, configVars, sideVars>>

\* The turn finishes: onFinish saves the exchange, and the client shows the
\* answer.
ChatFinish(c) ==
    /\ chats[c].pc = "streaming"
    /\ LET text == IF chats[c].found THEN "I'll transfer you to a human agent" ELSE "answer"
       IN  /\ messageStore' = SaveChat(messageStore, text, chats[c].posted, c, chats[c].turn)
           /\ chats' = [chats EXCEPT ![c] = [@ EXCEPT
                           !.messages = Append(@, [id |-> <<c, chats[c].turn, "answer">>,
                                                   role |-> "assistant", content |-> text]),
                           !.pc = "idle", !.posted = <<>>]]
    /\ UNCHANGED <<routeVars, admin, configVars, sideVars>>

ChatInit ==
    /\ store = <<>>
    /\ urls = <<>>
    /\ now = CHOOSE t \in Instants : \A u \in Instants : t <= u
    /\ req = [r \in Requests |-> Idle]
    /\ web = OkPage
    /\ admin = NoPage
    /\ NoChat
    /\ Configured
    /\ Aside

ChatNext ==
    \E c \in Conversations :
        \/ ChatPost(c)
        \/ HandoffToAgent(c)
        \/ ChatFinish(c)

ChatSpec == ChatInit /\ [][ChatNext]_vars

\* ---------------------------------------------------------------------------
\* saveChat, for every messages array
\* ---------------------------------------------------------------------------
\* The messages a caller can pass: the greeting, a user message, an earlier
\* answer of the assistant.
PostedMessages ==
    {Greeting,
     [id |-> <<"u">>, role |-> "user", content |-> "a human agent please"],
     [id |-> <<"a">>, role |-> "assistant", content |-> "earlier answer"]}

\* The arrays of up to three of them, the empty one included.
PostedLists == UNION {[1..n -> PostedMessages] : n \in 0..3}

\* The text of the response saved.
ResponseText == "answer"

\* saveChat is called with any array; the conversation keeps the array it
\* passed and counts its calls.
SaveChatCalled(c) ==
    /\ chats[c].turn < MaxTurns
    /\ \E messages \in PostedLists :
         /\ messageStore' = SaveChat(messageStore, ResponseText, messages, c, chats[c].turn + 1)
         /\ chats' = [chats EXCEPT ![c].posted = messages, ![c].turn = @ + 1]
    /\ UNCHANGED <<routeVars, admin, configVars, sideVars>>

SaveInit == ChatInit

\* One caller, no clearMessages.
SaveNext == SaveChatCalled("A")

SaveSpec == SaveInit /\ [][SaveNext]_vars

\* ---------------------------------------------------------------------------
\* Configuration: the environment and the external collaborators
\* ---------------------------------------------------------------------------
\* `${v}` in a template string
Template(v) == IF v = Undefined THEN "undefined" ELSE v

\* new ZendeskService(): the first variable found unset is reported, otherwise
\* the service holds its base URL and credentials.
ZendeskConstructor(e) ==
    IF ~Truthy(e["ZENDESK_SUBDOMAIN"]) THEN [error |-> "ZENDESK_SUBDOMAIN is required"]
    ELSE IF ~Truthy(e["ZENDESK_EMAIL"]) THEN [error |-> "ZENDESK_EMAIL is required"]
    ELSE IF ~Truthy(e["ZENDESK_API_TOKEN"]) THEN [error |-> "ZENDESK_API_TOKEN is required"]
    ELSE [error |-> "",
          baseUrl |-> <<"https://", Template(e["ZENDESK_SUBDOMAIN"]), ".zendesk.com/api/v2">>,
          auth |-> [username |-> <<Template(e["ZENDESK_EMAIL"]), "/token">>,
                    password |-> e["ZENDESK_API_TOKEN"]]]

\* The first request to /api/chat loads the route's module and, through the
\* tools, the module of the ticketing service, whose last statement constructs
\* the service.
LoadChatRoute ==
    /\ proc.chatRoute = "unloaded"
    /\ LET made == ZendeskConstructor(env)
       IN  proc' = IF made.error # ""
                   THEN [proc EXCEPT !.chatRoute = "failed", !.error = made.error]
                   ELSE [proc EXCEPT !.chatRoute = "loaded", !.zendeskService = made]
    /\ UNCHANGED <<routeVars, admin, chatVars, env, sideVars>>

\* createTicket: the ticket is posted with the credentials of the service.
CreateTicket ==
    /\ proc.chatRoute = "loaded"
    /\ proc' = [proc EXCEPT
                  !.used = @ \cup {"ticketing"},
                  !.calls = @ \cup {[to |-> "ticketing",
                                     url |-> proc.zendeskService.baseUrl,
                                     credential |-> proc.zendeskService.auth.password]}]
    /\ UNCHANGED <<routeVars, admin, chatVars, env, sideVars>>

\* The order ids the tool is called with: the mock order and another one.
OrderIds == {"5678", "1001"}

\* lookupOrder(orderId): the mock order is answered at once; any other is
\* asked of the platform, with the domain and the token read from the
\* environment at the call.
LookupOrder(orderId) ==
    /\ proc.chatRoute = "loaded"
    /\ proc' = IF orderId = "5678" THEN proc
               ELSE [proc EXCEPT
                       !.used = @ \cup {"e-commerce"},
                       !.calls = @ \cup {[to |-> "e-commerce",
                                          url |-> <<"https://", Template(env["SHOPIFY_SHOP_DOMAIN"]),
                                                    "/admin/api/2024-01/graphql.json">>,
                                          credential |-> env["SHOPIFY_ACCESS_TOKEN"]]}]
    /\ UNCHANGED <<routeVars, admin, chatVars, env, sideVars>>

ConfigInit ==
    /\ store = <<>>
    /\ urls = <<>>
    /\ now = CHOOSE t \in Instants : \A u \in Instants : t <= u
    /\ req = [r \in Requests |-> Idle]
    /\ web = OkPage
    /\ admin = NoPage
    /\ NoChat
    /\ env \in [EnvNames -> {Undefined, "", "value"}]
    /\ proc = NewProc
    /\ Aside

ConfigNext ==
    \/ LoadChatRoute
    \/ CreateTicket
    \/ \E orderId \in OrderIds : LookupOrder(orderId)

ConfigSpec == ConfigInit /\ [][ConfigNext]_vars

\* ---------------------------------------------------------------------------
\* The grouping of a listing, for every listing
\* ---------------------------------------------------------------------------
\* The records a listing can hold: three chunks of one document whose
\* metadata differ (the same base id was ingested twice, and the chunks were
\* split at different instants), a chunk of another document, a URL record.
GroupRecords ==
    {[id |-> ChunkId(DocBaseId(10), 0),
      metadata |-> Meta(Undefined, "first", <<"chunk", 0>>, 10, FALSE, "document",
                        "a.txt", "text/plain")],
     [id |-> ChunkId(DocBaseId(10), 1),
      metadata |-> Meta(Undefined, "second", <<"chunk", 1>>, 11, FALSE, "document",
                        "b.txt", "text/plain")],
     [id |-> ChunkId(DocBaseId(10), 2),
      metadata |-> Meta(Undefined, "first", <<"chunk", 2>>, 11, FALSE, "Document",
                        "a.txt", "text/plain")],
     [id |-> ChunkId(DocBaseId(1), 0),
      metadata |-> Meta(Undefined, "old doc", "text", 1, FALSE, "document",
                        "old.txt", "text/plain")],
     [id |-> NumToString(1),
      metadata |-> Meta("http://old", "old url", <<"page">>, 1, TRUE,
                        Undefined, Undefined, Undefined)]}

\* The listings: the records of any part of them, in any order.
Listings == UNION {Perms(S) : S \in SUBSET GroupRecords}

\* The page is open and the answer to its GET has arrived, with any listing.
GroupInit ==
    /\ store = <<>>
    /\ urls = <<>>
    /\ now = CHOOSE t \in Instants : \A u \in Instants : t <= u
    /\ \E vectors \in Listings :
         req = [r \in Requests |->
                  IF r = 1
                  THEN Finish([Idle EXCEPT !.kind = "get", !.calls = Bump(@, "list")],
                              Respond(200, [vectors |-> vectors]))
                  ELSE Idle]
    /\ web = OkPage
    /\ admin = MountedPage
    /\ NoChat
    /\ Configured
    /\ Aside

GroupNext == \E r \in Requests : FetchSettled(r)

GroupSpec == GroupInit /\ [][GroupNext]_vars

\* ---------------------------------------------------------------------------
\* The retrieval tool getWebsiteInfo
\* ---------------------------------------------------------------------------
\* Scores are counted in hundredths: the threshold 0.7 is 70.
Threshold == 70

\* The matches index.query can return. A match without score and a match of
\* score 0 are the same to the filter (both falsy): score 0 stands for both.
\* Two matches share a URL, two share a score, one has no URL (a document
\* chunk), one is exactly at the threshold.
MatchPool ==
    {[score |-> 90, content |-> "best", url |-> "http://a"],
     [score |-> 71, content |-> "above", url |-> "http://a"],
     [score |-> 71, content |-> "tie", url |-> "http://b"],
     [score |-> 80, content |-> "chunk", url |-> Undefined],
     [score |-> 70, content |-> "at", url |-> "http://c"],
     [score |-> 0, content |-> "unscored", url |-> "http://c"]}

\* searchResults.matches: any of them, in any order.
MatchLists == UNION {Perms(S) : S \in SUBSET MatchPool}

\* A filter that lets the threshold itself through.
RelevantInclusive(match) == match.score # 0 /\ match.score >= Threshold

\* match.score && match.score > 0.7
Relevant(match) == match.score # 0 /\ match.score > Threshold

RECURSIVE FilterRelevant(_)
FilterRelevant(matches) ==
    IF matches = <<>> THEN <<>>
    ELSE IF Relevant(Head(matches)) THEN <<Head(matches)>> \o FilterRelevant(Tail(matches))
    ELSE FilterRelevant(Tail(matches))

\* .sort((a, b) => (b.score || 0) - (a.score || 0)): descending, and stable,
\* so a match goes behind those already placed whose score is not lower.
RECURSIVE InsertByScore(_, _)
InsertByScore(sorted, match) ==
    IF sorted = <<>> THEN <<match>>
    ELSE IF Head(sorted).score >= match.score
         THEN <<Head(sorted)>> \o InsertByScore(Tail(sorted), match)
         ELSE <<match>> \o sorted
RECURSIVE SortInto(_, _)
SortInto(sorted, matches) ==
    IF matches = <<>> THEN sorted
    ELSE SortInto(InsertByScore(sorted, Head(matches)), Tail(matches))
SortByScore(matches) == SortInto(<<>>, matches)

\* .join('\n\n')
RECURSIVE Join(_, _)
Join(parts, sep) ==
    IF parts = <<>> THEN <<>>
    ELSE IF Len(parts) = 1 THEN parts
    ELSE <<Head(parts), sep>> \o Join(Tail(parts), sep)

\* [...new Set(values)]: each value once, in the order of first occurrence.
RECURSIVE Unique(_, _)
Unique(kept, values) ==
    IF values = <<>> THEN kept
    ELSE IF Head(values) \in Range(kept) THEN Unique(kept, Tail(values))
    ELSE Unique(Append(kept, Head(values)), Tail(values))

\* The body of the try block once the query has answered.
GetWebsiteInfo(matches) ==
    LET relevantMatches == SortByScore(FilterRelevant(matches))
    IN  IF Len(relevantMatches) > 0
        THEN [found |-> TRUE,
              content |-> Join([i \in DOMAIN relevantMatches |-> relevantMatches[i].content],
                               "\n\n"),
              sources |-> Unique(<<>>, [i \in DOMAIN relevantMatches |-> relevantMatches[i].url]),
              message |-> Undefined]
        ELSE [found |-> FALSE, content |-> <<>>, sources |-> <<>>,
              message |-> "I don't have specific information about that topic."]

\* The catch block of execute.
LookupCaught(q, thrown) ==
    [q EXCEPT !.pc = "done", !.thrown = thrown,
              !.result = [found |-> FALSE, content |-> <<>>, sources |-> <<>>,
                          message |-> "Sorry, I encountered an error while searching for information."]]

\* execute is called with a topic and asks for its embedding.
TopicAsked ==
    /\ lookup.pc = "idle"
    /\ lookup' = [lookup EXCEPT !.pc = "embedQuery"]
    /\ UNCHANGED <<routeVars, admin, chatVars, configVars, handoff, form>>

\* embeddings.embedQuery settles; the query is sent.
QueryEmbedded ==
    /\ lookup.pc = "embedQuery"
    /\ \/ lookup' = [lookup EXCEPT !.pc = "query"]
       \/ lookup' = LookupCaught(lookup, "embedQuery")
    /\ UNCHANGED <<routeVars, admin, chatVars, configVars, handoff, form>>

\* index.query settles; the tool returns.
IndexQueried ==
    /\ lookup.pc = "query"
    /\ \/ \E matches \in MatchLists :
            lookup' = [lookup EXCEPT !.pc = "done", !.matches = matches,
                                     !.result = GetWebsiteInfo(matches)]
       \/ lookup' = LookupCaught(lookup, "query")
    /\ UNCHANGED <<routeVars, admin, chatVars, configVars, handoff, form>>

RetrievalInit == ChatInit

RetrievalNext ==
    \/ TopicAsked
    \/ QueryEmbedded
    \/ IndexQueried

RetrievalSpec == RetrievalInit /\ [][RetrievalNext]_vars

\* ---------------------------------------------------------------------------
\* The handoff tool and createTicket, for every answer of the ticketing system
\* ---------------------------------------------------------------------------
\* What the model passes to execute.
HandoffInputs == [customerEmail : {Undefined, "c@x.org"}, reason : {Undefined, "", "refund"}]

\* How axios.post ends: a response (with the ticket created, or with a body
\* that has no ticket), or no response at all.
PostOutcomes ==
    {[kind |-> "response", status |-> 201, ticket |-> "101"],
     [kind |-> "response", status |-> 200, ticket |-> "102"],
     [kind |-> "response", status |-> 200, ticket |-> Undefined],
     [kind |-> "response", status |-> 401, ticket |-> Undefined],
     [kind |-> "response", status |-> 422, ticket |-> Undefined],
     [kind |-> "response", status |-> 500, ticket |-> Undefined],
     [kind |-> "network error", status |-> 0, ticket |-> Undefined]}

\* axios rejects when there is no response or its status is not 2xx.
AxiosRejects(outcome) ==
    outcome.kind # "response" \/ outcome.status < 200 \/ outcome.status > 299

TicketNotCreated == [success |-> FALSE, ticketId |-> Undefined, url |-> <<>>,
                     error |-> "Failed to create support ticket"]

\* createTicket once the post has ended: a rejection, and the TypeError of
\* reading the id of a ticket that is not in the body, are caught.
TicketCreated(outcome, e) ==
    IF AxiosRejects(outcome) THEN TicketNotCreated
    ELSE IF outcome.ticket = Undefined THEN TicketNotCreated
    ELSE [success |-> TRUE, ticketId |-> outcome.ticket,
          url |-> <<"https://", Template(e["ZENDESK_SUBDOMAIN"]),
                    ".zendesk.com/agent/tickets/", outcome.ticket>>,
          error |-> Undefined]

\* An execute that reports a handoff whatever createTicket returned.
HandoffResultOptimistic(created) ==
    [found |-> TRUE, type |-> "handoff",
     data |-> [ticketUrl |-> created.url, ticketId |-> created.ticketId],
     message |-> Undefined]

\* What execute returns for the result of createTicket.
HandoffResult(created) ==
    IF created.success
    THEN [found |-> TRUE, type |-> "handoff",
          data |-> [ticketUrl |-> created.url, ticketId |-> created.ticketId],
          message |-> Undefined]
    ELSE [found |-> FALSE, type |-> Undefined, data |-> <<>>,
          message |-> "I'm sorry, but I wasn't able to create a support ticket at this time. Please try again later."]

\* execute is called: the history is formatted and the ticket is posted.
HandoffCalled ==
    /\ handoff.pc = "idle"
    /\ \E in \in HandoffInputs :
         handoff' = [handoff EXCEPT
                        !.pc = "post", !.in = in,
                        !.description =
                            <<"Reason for transfer: ",
                              IF Truthy(in.reason) THEN in.reason ELSE "Not specified",
                              "\n\nChat History:\n", GetFormattedHistory(messageStore)>>]
    /\ UNCHANGED <<routeVars, admin, chatVars, configVars, lookup, form>>

\* axios.post ends and createTicket returns.
TicketPosted ==
    /\ handoff.pc = "post"
    /\ \E outcome \in PostOutcomes :
         handoff' = [handoff EXCEPT !.pc = "created", !.outcome = outcome,
                                    !.created = TicketCreated(outcome, env)]
    /\ UNCHANGED <<routeVars, admin, chatVars, configVars, lookup, form>>

\* execute returns.
HandoffReturned ==
    /\ handoff.pc = "created"
    /\ handoff' = [handoff EXCEPT !.pc = "done", !.result = HandoffResult(handoff.created)]
    /\ UNCHANGED <<routeVars, admin, chatVars, configVars, lookup, form>>

\* The store holds nothing, or the greeting and one exchange.
HandoffInit ==
    /\ store = <<>>
    /\ urls = <<>>
    /\ now = CHOOSE t \in Instants : \A u \in Instants : t <= u
    /\ req = [r \in Requests |-> Idle]
    /\ web = OkPage
    /\ admin = NoPage
    /\ messageStore \in {<<>>, SaveChat(<<>>, "answer", NewChat.messages
                                         \o <<[id |-> <<"u">>, role |-> "user",
                                               content |-> "a human agent please"]>>, "A", 1)}
    /\ chats = [c \in Conversations |-> NewChat]
    /\ Configured
    /\ Aside

HandoffNext ==
    \/ HandoffCalled
    \/ TicketPosted
    \/ HandoffReturned

HandoffSpec == HandoffInit /\ [][HandoffNext]_vars

\* ---------------------------------------------------------------------------
\* The content form of the admin page (useContentForm)
\* ---------------------------------------------------------------------------
\* The files a user can choose in the file input.
SelectableFiles ==
    {[type |-> "text/plain", size |-> MAX_FILE_SIZE, name |-> "a.txt", chunks |-> 1],
     [type |-> "text/plain", size |-> MAX_FILE_SIZE + 1, name |-> "big.txt", chunks |-> 1],
     [type |-> "application/pdf", size |-> 1, name |-> "a.pdf", chunks |-> 1]}
FieldTexts == {"", "text"}

\* A validation that does not look at the size.
ValidateFileTypeOnly(file) ==
    IF file.type \notin SUPPORTED_TYPES THEN "Unsupported file type" ELSE Null

\* validateFile: the error message, or null.
ValidateFile(file) ==
    IF file.type \notin SUPPORTED_TYPES THEN "Unsupported file type"
    ELSE IF file.size > MAX_FILE_SIZE THEN "File too large (max 10MB)"
    ELSE Null

formReducer(state, action) ==
    CASE action.type = "SET_URL" -> [state EXCEPT !.url.value = action.payload]
      [] action.type = "SET_URL_DESCRIPTION" -> [state EXCEPT !.url.description = action.payload]
      [] action.type = "SET_FILE" -> [state EXCEPT !.document.file = action.payload]
      [] action.type = "SET_DOCUMENT_DESCRIPTION" ->
            [state EXCEPT !.document.description = action.payload]
      [] action.type = "RESET_URL_FORM" -> [state EXCEPT !.url = initialState.url]
      [] action.type = "RESET_DOCUMENT_FORM" -> [state EXCEPT !.document = initialState.document]
      [] OTHER -> state

\* dispatch(action)
Dispatch(f, action) ==
    [f EXCEPT !.state = formReducer(f.state, action), !.dispatched = action, !.tick = ~f.tick]

\* handleFileSelect(file): what is dispatched and what is returned.
HandleFileSelect(f, file) ==
    IF file = NullFile
    THEN [Dispatch(f, [type |-> "SET_FILE", payload |-> NullFile]) EXCEPT !.returned = Null]
    ELSE LET error == ValidateFile(file)
         IN  IF error # Null
             THEN [Dispatch(f, [type |-> "SET_FILE", payload |-> NullFile])
                      EXCEPT !.returned = error]
             ELSE [Dispatch(f, [type |-> "SET_FILE", payload |-> file]) EXCEPT !.returned = Null]

\* handleFileChange: the file input changes; the page shows the error
\* returned, or clears its error.
HandleFileChange ==
    /\ \E file \in SelectableFiles \cup {NullFile} :
         LET f == HandleFileSelect([form EXCEPT !.selected = file], file)
         IN  form' = [f EXCEPT !.error = f.returned]
    /\ UNCHANGED <<routeVars, admin, chatVars, configVars, lookup, handoff>>

\* The text inputs of the two sections.
FieldTyped ==
    /\ \E type \in {"SET_URL", "SET_URL_DESCRIPTION", "SET_DOCUMENT_DESCRIPTION"},
          payload \in FieldTexts :
         form' = Dispatch(form, [type |-> type, payload |-> payload])
    /\ UNCHANGED <<routeVars, admin, chatVars, configVars, lookup, handoff>>

\* handleSubmit: the URL is added and the URL section is reset, or the error
\* of the failure is shown (the message addUrl throws when the answer has none).
HandleSubmit ==
    /\ \/ form' = [Dispatch(form, [type |-> "RESET_URL_FORM", payload |-> Null])
                     EXCEPT !.error = Null]
       \/ form' = [form EXCEPT !.error = "Failed to add URL"]
    /\ UNCHANGED <<routeVars, admin, chatVars, configVars, lookup, handoff>>

\* handleDocumentUpload: nothing without a file and a description; otherwise
\* the document is uploaded and the document section is reset, or the error
\* is shown.
HandleDocumentUpload ==
    /\ form.state.document.file # NullFile /\ form.state.document.description # ""
    /\ \/ form' = [Dispatch(form, [type |-> "RESET_DOCUMENT_FORM", payload |-> Null])
                     EXCEPT !.error = Null]
       \/ form' = [form EXCEPT !.error = "Failed to upload document"]
    /\ UNCHANGED <<routeVars, admin, chatVars, configVars, lookup, handoff>>

FormInit == ChatInit

FormNext ==
    \/ HandleFileChange
    \/ FieldTyped
    \/ HandleSubmit
    \/ HandleDocumentUpload

FormSpec == FormInit /\ [][FormNext]_vars

\* ---------------------------------------------------------------------------
\* Properties
\* ---------------------------------------------------------------------------
\* Request r returns in this step.
Completes(r) == req[r].pc # "done" /\ req'[r].pc = "done"
\* The records of the document with base id b held by a store.
ChunksOf(s, b) == IdsWithPrefix(s, b \o ChunkSep)
\* The document a record belongs to.
BaseOf(id) == SplitFirst(id, ChunkSep)

\* C1 (as claimed): the batch delete of a DELETE for document A removes only
\* records of A, never a record of a document with another base id, also when
\* A's base id is a proper prefix of the other's.
C1_PrefixIsolation ==
    [][\A r \in Requests :
          (req[r].kind = "delete" /\ req[r].pc = "deleteMany" /\ Completes(r))
          => \A i \in DOMAIN store \ DOMAIN store' : BaseOf(i) = req[r].in.id]_vars

\* C2: a DELETE for a document base id that returns success and ran with no
\* other request in flight leaves no record under '<id>_chunk' in the store.
C2_RoundTrip ==
    [][\A r \in Requests :
          (/\ req[r].kind = "delete" /\ IsDocumentId(req[r].in.id)
           /\ Completes(r) /\ req'[r].resp.status = 200 /\ req[r].solo)
          => ChunksOf(store', req[r].in.id) = {}]_vars

\* C2 happens: a document was ingested with success and at least two chunks,
\* the DELETE for its base id ran alone after it and succeeded, and no chunk
\* of it is left.
C2_Witness ==
    /\ req[1].kind = "doc" /\ req[1].pc = "done" /\ req[1].resp.status = 200
    /\ Len(req[1].tasks) >= 2
    /\ req[2].kind = "delete" /\ req[2].pc = "done" /\ req[2].resp.status = 200
    /\ req[2].solo /\ req[2].in.id = req[1].id
    /\ req[2].calls.delete = 1
    /\ ChunksOf(store, req[1].id) = {}

\* The document items of a listing answer, as the client groups it.
DocItemsOf(resp) ==
    LET items == fetchContent(resp.body.vectors)
    IN  {items[j] : j \in {k \in DOMAIN items : items[k].type = "document"}}

\* C3 (as claimed): a listing that ran alone and succeeded shows, for every
\* document ingested with success whose N >= 1 chunk records are all in the
\* store, exactly one document item with that base id, carrying chunkCount = N.
C3_GroupingCorrectness ==
    [][\A g \in Requests :
          (req[g].kind = "get" /\ Completes(g) /\ req'[g].resp.status = 200 /\ req[g].solo)
          => \A p \in Requests :
               (/\ req[p].kind = "doc" /\ req[p].pc = "done" /\ req[p].resp.status = 200
                /\ req[p].tasks # <<>>
                /\ \A i \in DOMAIN req[p].tasks : ChunkId(req[p].id, i - 1) \in DOMAIN store)
               => LET mine == {it \in DocItemsOf(req'[g].resp) : it.id = req[p].id}
                  IN  /\ Cardinality(mine) = 1
                      /\ \A it \in mine : /\ "chunkCount" \in DOMAIN it
                                          /\ it.chunkCount = req[p].resp.body.chunks]_vars

\* C4: a document ingestion that answered success has every chunk task
\* fulfilled, one upsert issued per chunk and chunks = N in the answer; an
\* ingestion with a rejected chunk task answered with an error.
C4_SuccessOnlyIfAllUpserted ==
    \A r \in Requests :
        req[r].kind = "doc" =>
            /\ req[r].resp.status = 200 =>
                  /\ \A i \in DOMAIN req[r].tasks : req[r].tasks[i] = "fulfilled"
                  /\ req[r].resp.body.chunks = Len(req[r].tasks)
                  /\ req[r].calls.upsert = Len(req[r].tasks)
            /\ (\E i \in DOMAIN req[r].tasks : req[r].tasks[i] = "rejected")
                  => req[r].resp.status = 500

\* C4 happens: an ingestion of two chunks answered success.
C4_Witness ==
    \E r \in Requests :
        /\ req[r].kind = "doc" /\ req[r].resp.status = 200
        /\ Len(req[r].tasks) = 2 /\ req[r].resp.body.chunks = 2
        /\ \A i \in 1..2 : ChunkId(req[r].id, i - 1) \in DOMAIN store

\* C5 (as claimed): once a document ingestion has answered, no chunk task of
\* it is still in flight.
C5_JoinAll ==
    \A r \in Requests :
        (req[r].kind = "doc" /\ req[r].resp # NoResp) => Settled(req[r].tasks)

RecordIds(q) ==
    IF q.kind = "url" THEN {q.id} ELSE {ChunkId(q.id, i - 1) : i \in DOMAIN q.tasks}

\* C7 (as claimed): two ingestions never write to the same record id.
C7_UniqueIds ==
    \A r1, r2 \in Requests :
        (/\ r1 # r2
         /\ req[r1].kind \in {"url", "doc"} /\ req[r1].id # NoId
         /\ req[r2].kind \in {"url", "doc"} /\ req[r2].id # NoId)
        => RecordIds(req[r1]) \cap RecordIds(req[r2]) = {}

EmptyOrMissing(v) == v = "" \/ v = Undefined

\* C8: a POST /api/urls whose url or description is empty or missing returns
\* at once with status 400, has called neither the scraper nor the embedding
\* client nor the store, and leaves the store as it was.
C8_ValidationGate ==
    [][\A r \in Requests :
          (/\ req[r].kind = "idle" /\ req'[r].kind = "url"
           /\ (EmptyOrMissing(req'[r].in.url) \/ EmptyOrMissing(req'[r].in.description)))
          => /\ req'[r].pc = "done" /\ req'[r].resp.status = 400
             /\ req'[r].calls = ZeroCalls
             /\ store' = store]_vars

\* C8 happens: a request with a url and an empty description was refused.
C8_Witness ==
    \E r \in Requests :
        /\ req[r].kind = "url" /\ req[r].pc = "done"
        /\ req[r].in.url = "http://x" /\ req[r].in.description = ""
        /\ req[r].resp.status = 400 /\ req[r].calls = ZeroCalls

\* The records a DELETE for id finds in a store.
DeleteTargets(s, id) ==
    IF IsDocumentId(id) THEN IdsWithPrefix(s, DeletePrefix(id)) ELSE {id} \cap DOMAIN s

\* C9: a DELETE that returns while the store holds no record matching its id
\* leaves the store unchanged and answers success, unless a call to the store
\* itself failed.
C9_IdempotentDelete ==
    [][\A r \in Requests :
          (/\ req[r].kind = "delete" /\ req[r].in.id # NoId /\ Completes(r)
           /\ DeleteTargets(store, req[r].in.id) = {})
          => /\ store' = store
             /\ \/ req'[r].resp.status = 200
                \/ req'[r].thrown \in {"list", "delete"}]_vars

\* C9 happens: two DELETEs for the same document id in a row, the first
\* deleted the listed chunks, the second found none, and both succeeded.
C9_Witness ==
    /\ req[1].kind = "delete" /\ req[1].pc = "done" /\ req[1].resp.status = 200
    /\ req[2].kind = "delete" /\ req[2].pc = "done" /\ req[2].resp.status = 200
    /\ req[2].in.id = req[1].in.id /\ IsDocumentId(req[1].in.id)
    /\ req[1].calls.delete = 1 /\ req[2].calls.delete = 0 /\ req[2].solo

\* Base ids to test a listing for: those of the records in the store, those
\* of the items shown, and those an ingestion can generate.
BaseIds(s, resp) ==
    {BaseOf(i) : i \in DOMAIN s} \cup {it.id : it \in DocItemsOf(resp)}
    \cup {DocBaseId(t) : t \in Instants \cup PriorInstants}

\* C10: in the answer of a listing that ran alone, a document item with base
\* id B is present exactly when the store holds a record under 'B_chunk'.
C10_ListedIffChunk ==
    [][\A g \in Requests :
          (req[g].kind = "get" /\ Completes(g) /\ req'[g].resp.status = 200 /\ req[g].solo)
          => \A b \in BaseIds(store, req'[g].resp) :
               (\E it \in DocItemsOf(req'[g].resp) : it.id = b) <=> ChunksOf(store, b) # {}]_vars

\* C10 happens: a listing of at least three records that ran alone shows a
\* document whose chunks are in the store, next to a URL item.
C10_Witness ==
    \E g \in Requests :
        /\ req[g].kind = "get" /\ req[g].pc = "done" /\ req[g].resp.status = 200
        /\ req[g].solo /\ Len(req[g].resp.body.vectors) >= 3
        /\ \E it \in DocItemsOf(req[g].resp) : Cardinality(ChunksOf(store, it.id)) >= 2
        /\ \E j \in DOMAIN req[g].resp.body.vectors : req[g].resp.body.vectors[j].metadata.isUrl

\* The page receives the answer to request r in this step.
Receives(r) == r \notin admin.handled /\ r \in admin'.handled
\* An item of the page with this id and type.
Shows(p, id, type) ==
    \E k \in DOMAIN p.savedItems : p.savedItems[k].id = id /\ p.savedItems[k].type = type
\* A URL record as the listing is said to recognise it.
IsUrlRecord(v) ==
    v.metadata.isUrl \/ (v.metadata.url # Undefined /\ v.metadata.type = Undefined)

\* C11 (as claimed): when the page receives a listing, every record in it with
\* isUrl true, and every record with a url and no type, is shown as a URL item
\* under its own id, and every record of type 'document' is shown under the
\* document item of its base id; no URL record is dropped.
C11_ListingClassification ==
    [][\A r \in Requests :
          (req[r].kind = "get" /\ Receives(r) /\ Ok(req[r].resp))
          => \A j \in DOMAIN req[r].resp.body.vectors :
               LET v == req[r].resp.body.vectors[j]
               IN  /\ IsUrlRecord(v) => Shows(admin', v.id, "url")
                   /\ v.metadata.type = "document"
                        => Shows(admin', BaseOf(v.id), "document")]_vars

\* C12: a GET in which a page of the listing or a fetch failed answers 500
\* with the error body and no vectors, and an answer with vectors comes from
\* a GET in which no call failed; the page that receives an answer that is not
\* ok keeps its items and shows 'Failed to fetch items'.
C12_ListingAllOrNothing ==
    [][\A r \in Requests :
          req[r].kind = "get" =>
             /\ req[r].thrown # "none"
                  => /\ req[r].resp = Respond(500, ErrorBody("Failed to fetch items"))
                     /\ "vectors" \notin DOMAIN req[r].resp.body
             /\ (req[r].pc = "done" /\ Ok(req[r].resp)) => req[r].thrown = "none"
             /\ (Receives(r) /\ ~Ok(req[r].resp))
                  => /\ admin'.savedItems = admin.savedItems
                     /\ admin'.error = "Failed to fetch items"]_vars

\* C12 happens: the first listing succeeded and put items on the page, a fetch
\* of the second failed after the listing of the ids, and the page still shows
\* the first items, with the error.
C12_Witness ==
    /\ req[1].kind = "get" /\ req[1].resp.status = 200 /\ 1 \in admin.handled
    /\ req[2].kind = "get" /\ req[2].thrown = "fetch" /\ 2 \in admin.handled
    /\ req[2].calls.fetch >= 2
    /\ admin.savedItems # <<>>
    /\ admin.savedItems = fetchContent(req[1].resp.body.vectors)
    /\ admin.error = "Failed to fetch items"

\* C19: a click on the delete button of an item calls deleteItem with the
\* item's id exactly when showDeleteConfirm already names the item; any other
\* click only moves the confirmation to the clicked item; and deleteItem is
\* called in no other step.
C19_TwoClickDelete ==
    [][/\ admin'.tick # admin.tick
          => IF admin.showDeleteConfirm = admin'.clicked
             THEN /\ admin'.deleteCalls = Append(admin.deleteCalls, admin'.clicked)
                  /\ admin'.showDeleteConfirm = admin.showDeleteConfirm
             ELSE /\ admin'.deleteCalls = admin.deleteCalls
                  /\ admin'.showDeleteConfirm = admin'.clicked
       /\ admin'.deleteCalls # admin.deleteCalls
          => /\ admin'.tick # admin.tick
             /\ admin.showDeleteConfirm = admin'.clicked]_vars

\* C19 happens: with two items on the page, one was clicked twice and
\* deleted, the DELETE for it succeeded and cleared the confirmation, and the
\* record of the other item is still in the store.
C19_Witness ==
    /\ Len(admin.savedItems) = 2
    /\ Len(admin.deleteCalls) = 1
    /\ \E r \in Requests : /\ req[r].kind = "delete" /\ req[r].resp.status = 200
                           /\ req[r].in.id = admin.deleteCalls[1]
                           /\ r \in admin.handled
                           /\ req[r].in.id \notin DOMAIN store
    /\ \E k \in DOMAIN admin.savedItems :
          /\ admin.savedItems[k].id # admin.deleteCalls[1]
          /\ admin.savedItems[k].id \in DOMAIN store
    /\ admin.showDeleteConfirm = NullId

\* Request r arrives in this step as a request of this kind.
ArrivesAs(r, kind) == req[r].kind = "idle" /\ req'[r].kind = kind

\* C13 (as claimed): a POST /api/documents with a valid file and an empty or
\* missing description is answered 400 before any embedding or upsert call,
\* and no record of type 'document' in the store lacks a description.
C13_DescriptionValidated ==
    [][/\ \A r \in Requests :
            (/\ ArrivesAs(r, "doc") /\ DocRejection(req'[r].in.file) = ""
             /\ EmptyOrMissing(req'[r].in.description))
            => /\ req'[r].resp.status = 400
               /\ req'[r].calls = ZeroCalls
       /\ \A i \in DOMAIN store' :
            store'[i].type = "document" => ~EmptyOrMissing(store'[i].description)]_vars

\* C14: a POST /api/documents whose file is not 'text/plain' or is larger than
\* MAX_FILE_SIZE is answered 400 at once, nothing is split, embedded or
\* upserted for it and the store is as it was; a 'text/plain' file of at most
\* MAX_FILE_SIZE bytes is not refused.
C14_FileIntakeGate ==
    [][\A r \in Requests :
          (ArrivesAs(r, "doc") /\ req'[r].in.file # NoFile)
          => LET file == req'[r].in.file
             IN  IF file.type # "text/plain" \/ file.size > 10 * 1024 * 1024
                 THEN /\ req'[r].pc = "done" /\ req'[r].resp.status = 400
                      /\ "error" \in DOMAIN req'[r].resp.body
                      /\ req'[r].calls = ZeroCalls
                      /\ req'[r].tasks = <<>> /\ req'[r].metas = <<>>
                      /\ req'[r].id = NoId
                      /\ store' = store
                 ELSE req'[r].resp.status # 400]_vars

\* C14 happens: a file one byte over the cap was refused, and a file of
\* exactly the cap was ingested with success.
C14_Witness ==
    \E r1, r2 \in Requests :
        /\ req[r1].kind = "doc" /\ req[r1].in.file.size = MAX_FILE_SIZE + 1
        /\ req[r1].in.file.type = "text/plain"
        /\ req[r1].resp.status = 400 /\ req[r1].calls = ZeroCalls
        /\ req[r2].kind = "doc" /\ req[r2].in.file.size = MAX_FILE_SIZE
        /\ req[r2].resp.status = 200 /\ req[r2].tasks # <<>>

\* The HTTP status is a success status.
Is2xx(status) == status >= 200 /\ status <= 299

\* C15 (as claimed): a scrape whose fetch is answered with a status that is
\* not 2xx fails the ingestion with the scrape error, and no URL record
\* holds the text of such an answer; a 2xx answer without text gives the
\* empty text, not an error.
C15_ScrapeFailure ==
    [][/\ \A r \in Requests :
            (req[r].kind = "url" /\ req[r].pc = "scrape" /\ req'[r].pc # "scrape")
            => /\ ~Is2xx(web.status)
                    => /\ req'[r].pc = "done" /\ req'[r].thrown = "scrape"
                       /\ req'[r].resp.status = 500
               /\ (Is2xx(web.status) /\ req'[r].thrown = "none")
                    => req'[r].in.content = BodyText(web.html)
       /\ \A i \in DOMAIN store' \ DOMAIN store :
            store'[i].isUrl => Is2xx(web.status)]_vars

\* C16: a POST /api/urls in which the scrape, the embedding or the upsert
\* failed answers 500 with a body of the one field `error`, in a step that
\* leaves the store as it was, and has sent no upsert that succeeded; a URL
\* ingestion issues each external call at most once; and the store changes
\* only in the step in which an ingestion with no failure answers.
C16_SingleFailureFails ==
    [][/\ \A r \in Requests :
            (req[r].kind = "url" /\ Completes(r) /\ req'[r].thrown # "none")
            => /\ req'[r].resp.status = 500
               /\ DOMAIN req'[r].resp.body = {"error"}
               /\ req'[r].thrown \in {"scrape", "embed", "upsert"}
               /\ req'[r].calls.upsert = 0 \/ req'[r].thrown = "upsert"
               /\ store' = store
       /\ \A r \in Requests :
            req'[r].kind = "url"
            => /\ req'[r].calls.scrape <= 1 /\ req'[r].calls.embed <= 1
               /\ req'[r].calls.upsert <= 1
       /\ store' # store
            => \E r \in Requests : /\ req[r].kind = "url" /\ Completes(r)
                                   /\ req'[r].thrown = "none"
                                   /\ req'[r].resp.status = 200]_vars

\* C16 happens: one ingestion failed at the scrape, one at the upsert after
\* one call of each kind, both were answered 500, and the store holds no
\* record under the id of the second.
C16_Witness ==
    \E r1, r2 \in Requests :
        /\ req[r1].kind = "url" /\ req[r1].thrown = "scrape"
        /\ req[r1].resp = Respond(500, ErrorBody("Failed to add URL"))
        /\ req[r2].kind = "url" /\ req[r2].thrown = "upsert"
        /\ req[r2].resp = Respond(500, ErrorBody("Failed to add URL"))
        /\ req[r2].calls = [ZeroCalls EXCEPT !.scrape = 1, !.embed = 1, !.upsert = 1]
        /\ req[r2].id \notin DOMAIN store

\* Turn n of conversation c has finished (its onFinish has run).
Finished(c, n) == chats[c].turn > n \/ (chats[c].turn = n /\ chats[c].pc = "idle")

\* C17 (as claimed): the history of a ticket is made only of messages of the
\* conversation that asked for the handoff.
C17_RequestIsolation ==
    \A c \in Conversations :
        chats[c].found
        => \A k \in DOMAIN chats[c].ticket.sources : chats[c].ticket.sources[k][1] = c

\* C20: when a handoff creates a ticket in a turn, the history in the ticket
\* is the formatted store as it is then, every message in it was saved by a
\* turn that has finished, and it holds neither the user message nor the
\* answer of the turn that asks; and the store changes only when a turn
\* finishes.
C20_HandoffOrdering ==
    [][/\ \A c \in Conversations :
            (chats'[c].toolCalls > chats[c].toolCalls /\ chats'[c].found)
            => LET t == chats'[c].ticket
               IN  /\ t.by = <<c, chats[c].turn>>
                   /\ t.description[4] = GetFormattedHistory(messageStore)
                   /\ t.sources = IdsOf(messageStore)
                   /\ \A k \in DOMAIN t.sources :
                        /\ Finished(t.sources[k][1], t.sources[k][2])
                        /\ <<t.sources[k][1], t.sources[k][2]>> # <<c, chats[c].turn>>
       /\ messageStore' # messageStore
            => \E c \in Conversations : chats[c].pc = "streaming" /\ chats'[c].pc = "idle"]_vars

\* C20 happens: in its second turn a conversation asked for the handoff; the
\* ticket holds the exchange of its first turn and not the message of the
\* second, which the store receives when the turn finishes.
C20_Witness ==
    \E c \in Conversations :
        /\ chats[c].turn = 2 /\ chats[c].pc = "idle" /\ chats[c].found
        /\ chats[c].ticket.by = <<c, 2>>
        /\ \E k \in DOMAIN chats[c].ticket.sources :
              chats[c].ticket.sources[k] = Uuid(c, 1, "user")
        /\ \A k \in DOMAIN chats[c].ticket.sources :
              chats[c].ticket.sources[k] # Uuid(c, 2, "user")
        /\ \E k \in DOMAIN messageStore : messageStore[k].id = Uuid(c, 2, "user")

\* The collaborator whose configuration an error message names.
ErrorAbout(msg) == IF msg = "" THEN "none" ELSE "ticketing"

\* C18 (as claimed): an error about a collaborator's configuration is raised
\* only once that collaborator has been used, and no call is sent to a
\* collaborator with an unset credential or an unset host.
C18_ConfigFailFast ==
    /\ proc.error # "" => ErrorAbout(proc.error) \in proc.used
    /\ \A call \in proc.calls :
          /\ Truthy(call.credential)
          /\ \A k \in DOMAIN call.url : call.url[k] \notin {"undefined", ""}

\* C21: the upsert of the i-th of the N chunks of a document ingestion
\* (i = 0..N-1) writes the record '<baseId>_chunk<i>' and no other, with type
\* 'document' and the submitted filename and description; these N ids are
\* pairwise distinct; and an ingestion that answers success split into N
\* chunks, has issued exactly N upserts and reports chunks = N.
C21_ChunkAddressing ==
    [][\A r \in Requests :
          req'[r].kind = "doc" =>
             /\ \A i \in DOMAIN req[r].tasks :
                  (req[r].tasks[i] = "upserting" /\ req'[r].tasks[i] = "fulfilled")
                  => LET id == req[r].id \o <<"_", "c", "h", "u", "n", "k">> \o NumToString(i - 1)
                     IN  /\ id \in DOMAIN store'
                         /\ DOMAIN store' \ DOMAIN store \subseteq {id}
                         /\ \A j \in DOMAIN store \ {id} : store'[j] = store[j]
                         /\ store'[id].type = "document"
                         /\ store'[id].filename = req[r].in.file.name
                         /\ store'[id].description = req[r].in.description
             /\ Cardinality({req'[r].id \o <<"_", "c", "h", "u", "n", "k">> \o NumToString(i - 1)
                               : i \in DOMAIN req'[r].tasks}) = Len(req'[r].tasks)
             /\ req'[r].calls.upsert <= Len(req'[r].tasks)
             /\ req'[r].resp.status = 200
                  => /\ Len(req'[r].tasks) = req'[r].in.file.chunks
                     /\ req'[r].calls.upsert = req'[r].in.file.chunks
                     /\ req'[r].resp.body.chunks = req'[r].in.file.chunks]_vars

\* C21 happens: an ingestion of MaxChunks chunks answered success, and the
\* store holds its records '<baseId>_chunk0' .. '<baseId>_chunk<N-1>' with the
\* submitted filename and description.
C21_Witness ==
    \E r \in Requests :
        /\ req[r].kind = "doc" /\ req[r].resp.status = 200
        /\ req[r].in.file.chunks = MaxChunks /\ req[r].resp.body.chunks = MaxChunks
        /\ req[r].calls.upsert = MaxChunks
        /\ \A i \in 0..(MaxChunks - 1) :
              LET id == req[r].id \o <<"_", "c", "h", "u", "n", "k">> \o NumToString(i)
              IN  /\ id \in DOMAIN store
                  /\ store[id].type = "document"
                  /\ store[id].filename = "a.txt" /\ store[id].description = "doc"

\* The first record of a listing that is a chunk of the document b.
FirstChunkOf(vectors, b) ==
    LET mine == {j \in DOMAIN vectors : /\ BaseOf(vectors[j].id) = b
                                        /\ vectors[j].metadata.type \in {"document", "Document"}}
    IN  vectors[CHOOSE j \in mine : \A k \in mine : j <= k]

\* C22: when the page groups a listing, every document item it shows carries
\* the description, the filename and the date of the first chunk of its base
\* id in the order of the listing, and there is one item for the base id.
C22_FirstChunkWins ==
    [][\A r \in Requests :
          (req[r].kind = "get" /\ Receives(r) /\ Ok(req[r].resp))
          => \A k \in DOMAIN admin'.savedItems :
               LET item == admin'.savedItems[k]
               IN  item.type = "document"
                   => LET first == FirstChunkOf(req[r].resp.body.vectors, item.id)
                      IN  /\ item.description = first.metadata.description
                          /\ item.filename = first.metadata.filename
                          /\ item.createdAt = first.metadata.timestamp[2]
                          /\ \A j \in DOMAIN admin'.savedItems :
                               admin'.savedItems[j].id = item.id => j = k]_vars

\* C22 happens: a listing began with the second chunk of a document, went on
\* with its first and third, and the item shows the metadata of the second.
C22_Witness ==
    /\ 1 \in admin.handled /\ Len(req[1].resp.body.vectors) >= 3
    /\ req[1].resp.body.vectors[1].id = ChunkId(DocBaseId(10), 1)
    /\ \E j \in DOMAIN req[1].resp.body.vectors :
          req[1].resp.body.vectors[j].id = ChunkId(DocBaseId(10), 0)
    /\ \E k \in DOMAIN admin.savedItems :
          /\ admin.savedItems[k].id = DocBaseId(10)
          /\ admin.savedItems[k].description = "second"
          /\ admin.savedItems[k].filename = "b.txt"
          /\ admin.savedItems[k].createdAt = 11

\* The ids a listing loop has still to receive: its page carries a token.
HasToken(q, ids) == ids \ q.seen # {}

\* The listing loop of request r receives the answer to its listPaginated.
PageArrives(r) ==
    req[r].pc = "list" /\ (req'[r].pc # "list" \/ req'[r].calls # req[r].calls)

\* C23: a listing loop (GET, and DELETE of a document) asks for a further page
\* exactly when the page it received carried a token and stops at the page
\* without one; what it has collected is, at every moment, the ids of the
\* pages it received, each once and in the order received; and every listing
\* loop ends.
C23_PaginationComplete ==
    /\ [](\A r \in Requests :
            req[r].kind \in {"get", "delete"}
            => /\ Range(req[r].listed) = req[r].seen
               /\ Len(req[r].listed) = Cardinality(req[r].seen))
    /\ [][\A r \in Requests :
            (PageArrives(r) /\ req'[r].thrown = "none")
            => IF req'[r].pc = "list"
               THEN /\ req'[r].calls.list = req[r].calls.list + 1
                    /\ HasToken(req'[r], IdsWithPrefix(store, req[r].id))
                    /\ req[r].seen \subseteq req'[r].seen /\ req'[r].seen # req[r].seen
                    /\ SubSeq(req'[r].listed, 1, Len(req[r].listed)) = req[r].listed
               ELSE /\ req'[r].calls.list = req[r].calls.list
                    /\ req'[r].pc \in {"fetch", "deleteMany"}
                         => /\ ~HasToken(req'[r], IdsWithPrefix(store, req[r].id))
                            /\ req'[r].seen = IdsWithPrefix(store, req[r].id) \cup req[r].seen
                            /\ SubSeq(req'[r].listed, 1, Len(req[r].listed)) = req[r].listed
                    /\ req'[r].pc = "done" => IdsWithPrefix(store, req[r].id) = {}]_vars
    /\ \A r \in Requests : (req[r].pc = "list") ~> (req[r].pc # "list")

\* C23 happens: a document delete has listed three ids over two pages, the
\* second without token, and goes on to delete them, while a GET has listed
\* the same ids over two pages and fetches them.
C23_Witness ==
    /\ \E r \in Requests :
          /\ req[r].kind = "delete" /\ req[r].pc = "deleteMany"
          /\ req[r].calls.list = 2 /\ Len(req[r].listed) = 3
          /\ Range(req[r].listed) = IdsWithPrefix(store, req[r].id)
    /\ \E r \in Requests :
          /\ req[r].kind = "get" /\ req[r].pc = "fetch"
          /\ req[r].calls.list = 2 /\ Len(req[r].listed) = 3

\* Request r is a DELETE of a single record: its id is there and does not
\* start with "doc_".
DeletesSingle(q) ==
    q.kind = "delete" /\ q.in.id # NoId /\ ~StartsWith(q.in.id, <<"d", "o", "c", "_">>)

\* C24: a DELETE whose id does not start with "doc_" never lists, issues one
\* delete, and when that delete settles the store has lost the record of
\* exactly that id, if it was there, and every other record is as it was.
C24_SingleDeleteFrame ==
    /\ [](\A r \in Requests :
            DeletesSingle(req[r])
            => /\ req[r].calls.list = 0 /\ req[r].calls.delete = 1
               /\ req[r].pc \in {"deleteOne", "done"})
    /\ [][\A r \in Requests :
            (DeletesSingle(req[r]) /\ req[r].pc = "deleteOne" /\ req'[r].pc = "done")
            => /\ DOMAIN store' \in {DOMAIN store, DOMAIN store \ {req[r].in.id}}
               /\ \A i \in DOMAIN store' : store'[i] = store[i]
               /\ req'[r].resp.status = 200 => req[r].in.id \notin DOMAIN store'
               /\ req'[r].calls = req[r].calls]_vars

\* C24 happens: the URL record "1" was deleted by a single delete, and the
\* chunk of the document ingested at the same instant is still there.
C24_Witness ==
    \E r \in Requests :
        /\ DeletesSingle(req[r]) /\ req[r].pc = "done" /\ req[r].resp.status = 200
        /\ req[r].in.id = NumToString(1) /\ req[r].solo
        /\ req[r].calls.delete = 1 /\ req[r].calls.list = 0
        /\ NumToString(1) \notin DOMAIN store
        /\ ChunkId(DocBaseId(1), 0) \in DOMAIN store

\* Request r is a DELETE of a document: its id starts with "doc_".
DeletesDocument(q) ==
    q.kind = "delete" /\ q.in.id # NoId /\ StartsWith(q.in.id, <<"d", "o", "c", "_">>)

\* C25: a DELETE of a document issues its batch delete only when the listing
\* is over, at most once, and not at all when nothing was listed; the step
\* in which the batch settles removes every listed id or none, and after a
\* failure the request answers 500 and calls nothing more. No other step of
\* the request changes the store.
C25_OneBatchDelete ==
    /\ [](\A r \in Requests :
            DeletesDocument(req[r])
            => /\ req[r].calls.delete <= 1
               /\ req[r].pc = "list" => req[r].calls.delete = 0
               /\ req[r].pc = "deleteMany"
                    => req[r].calls.delete = 1 /\ Len(req[r].listed) > 0
               /\ req[r].pc \in {"list", "deleteMany", "done"})
    /\ [][\A r \in Requests :
            (DeletesDocument(req'[r])
               /\ (req'[r].calls # req[r].calls \/ req'[r].pc # req[r].pc))
            => IF req[r].pc = "deleteMany"
               THEN /\ req'[r].pc = "done" /\ req'[r].calls = req[r].calls
                    /\ \/ /\ req'[r].resp.status = 200
                          /\ DOMAIN store' = DOMAIN store \ Range(req[r].listed)
                          /\ \A i \in DOMAIN store' : store'[i] = store[i]
                       \/ /\ req'[r].resp.status = 500
                          /\ store' = store
               ELSE /\ store' = store
                    /\ (req[r].pc = "list" /\ req'[r].pc = "done" /\ req'[r].thrown = "none")
                         => req'[r].resp.status = 200 /\ req'[r].calls.delete = 0]_vars

\* C25 happens: the delete of doc_1 listed three ids over two pages and its
\* one batch delete removed them all.
C25_Witness ==
    \E r \in Requests :
        /\ DeletesDocument(req[r]) /\ req[r].pc = "done" /\ req[r].resp.status = 200
        /\ req[r].in.id = DocBaseId(1)
        /\ req[r].calls.list = 2 /\ req[r].calls.delete = 1
        /\ IdsWithPrefix(store, DocBaseId(1)) = {}
        /\ \E o \in Requests : req[o].kind = "doc" /\ req[o].calls.upsert = 2

\* What a step has added at the end of the stored messages.
Added == SubSeq(messageStore', Len(messageStore) + 1, Len(messageStore'))
\* The stored copy of a message: its role and content, whatever its id.
Copy(m) == [role |-> m.role, content |-> m.content]
SameAs(stored, m) == Copy(stored) = Copy(m)

\* C26: a call of saveChat leaves the stored messages as they were and adds
\* at the end, when the last message passed is a user message, one user
\* message with its content and then one assistant message with the response
\* text, and no other user message; otherwise it adds neither. The one other
\* message a call can add is the copy of the first message passed, before them.
C26_LatestExchangeOnly ==
    [][\A c \in Conversations :
          chats'[c].turn = chats[c].turn + 1
          => LET messages == chats'[c].posted
                 n == Len(messages)
                 k == Len(Added)
                 exchange == IF n > 0 /\ messages[n].role = "user" THEN 2 ELSE 0
             IN  /\ SubSeq(messageStore', 1, Len(messageStore)) = messageStore
                 /\ k \in {exchange, exchange + 1}
                 /\ exchange = 2
                      => /\ SameAs(Added[k - 1], messages[n])
                         /\ Added[k].role = "assistant" /\ Added[k].content = ResponseText
                 /\ k = exchange + 1 => n > 0 /\ SameAs(Added[1], messages[1])
                 /\ Cardinality({i \in 1..k : Added[i].role = "user"}) = exchange \div 2
                 /\ Cardinality({i \in 1..k : Added[i].content = ResponseText}) = exchange \div 2]_vars

\* C26 happens: a first call stored an exchange, and a second call, whose
\* array ends with an assistant message after a user message, stored nothing.
C26_Witness ==
    /\ chats["A"].turn = 2 /\ Len(messageStore) = 2
    /\ Len(chats["A"].posted) = 3
    /\ chats["A"].posted[2].role = "user" /\ chats["A"].posted[3].role = "assistant"
    /\ messageStore[1].role = "user" /\ messageStore[2].content = ResponseText

\* The stored message at i was stored as a greeting.
IsGreetingCopy(stored, i) == stored[i].id[3] = "greeting"

\* C27: the stored messages hold at most one greeting, at the first place;
\* a call adds it only to an empty store and only when the first message it
\* is passed is an assistant message.
C27_GreetingAtMostOnce ==
    /\ [](\A i \in DOMAIN messageStore : IsGreetingCopy(messageStore, i) => i = 1)
    /\ [][\A c \in Conversations :
            (/\ chats'[c].turn = chats[c].turn + 1
             /\ \E i \in DOMAIN messageStore' \ DOMAIN messageStore :
                   IsGreetingCopy(messageStore', i))
            => /\ Len(messageStore) = 0
               /\ chats'[c].posted[1].role = "assistant"
               /\ SameAs(messageStore'[1], chats'[c].posted[1])]_vars

\* C27 happens: the first call stored the greeting and an exchange, the second
\* was passed the greeting again and stored only its exchange.
C27_Witness ==
    /\ chats["A"].turn = 2 /\ Len(messageStore) = 5
    /\ IsGreetingCopy(messageStore, 1)
    /\ chats["A"].posted[1] = Greeting
    /\ messageStore[4].role = "user" /\ messageStore[5].role = "assistant"

\* The pieces a joined content was made of.
Pieces(content) == [i \in 1..((Len(content) + 1) \div 2) |-> content[2 * i - 1]]
\* The score of the match a piece of content came from.
ScoreOfContent(c) == (CHOOSE m \in MatchPool : m.content = c).score

\* C28: when getWebsiteInfo has returned after a query that answered, found
\* is true exactly when some match has a score above 0.7; the content is then
\* the contents of the matches above 0.7, each once, the higher score first,
\* and the sources are their URLs, each once. When the embedding or the query
\* failed, it has returned found = false.
C28_RetrievalThreshold ==
    lookup.pc = "done"
    => IF lookup.thrown # "none"
       THEN lookup.result.found = FALSE
       ELSE LET above == {i \in DOMAIN lookup.matches : lookup.matches[i].score > 70}
                pieces == Pieces(lookup.result.content)
            IN  /\ lookup.result.found = (above # {})
                /\ lookup.result.found
                     => /\ Len(pieces) = Cardinality(above)
                        /\ Range(pieces) = {lookup.matches[i].content : i \in above}
                        /\ \A j \in 1..(Len(pieces) - 1) :
                              ScoreOfContent(pieces[j]) >= ScoreOfContent(pieces[j + 1])
                        /\ Range(lookup.result.sources) = {lookup.matches[i].url : i \in above}
                        /\ Cardinality(Range(lookup.result.sources)) = Len(lookup.result.sources)

\* C28 happens: of five matches returned lowest first, the one at 0.7 and the
\* one without score are left out, and the three above come out best first,
\* their shared URL once.
C28_Witness ==
    /\ lookup.pc = "done" /\ lookup.thrown = "none" /\ Len(lookup.matches) = 5
    /\ lookup.matches[1].score = 0 /\ lookup.matches[2].score = 70
    /\ lookup.matches[3].content = "above" /\ lookup.matches[5].content = "best"
    /\ lookup.result.found
    /\ Pieces(lookup.result.content) = <<"best", "chunk", "above">>
    /\ lookup.result.sources = <<"http://a", Undefined>>

\* C29: createTicket returns success exactly when the post was answered 2xx
\* with a ticket, and success = false for every other way the post can end;
\* execute returns, with found = true and the id and URL of the ticket
\* exactly when createTicket reported success, and with found = false and a
\* message otherwise.
C29_HandoffTotalTruthful ==
    /\ handoff.pc \in {"created", "done"}
         => /\ handoff.created.success \in BOOLEAN
            /\ handoff.created.success
                 = (/\ handoff.outcome.kind = "response"
                    /\ handoff.outcome.status \in 200..299
                    /\ handoff.outcome.ticket # Undefined)
    /\ handoff.pc = "done"
         => /\ handoff.result.found = handoff.created.success
            /\ handoff.result.found
                 => /\ handoff.result.data.ticketId = handoff.outcome.ticket
                    /\ handoff.result.data.ticketUrl = handoff.created.url
                    /\ handoff.result.data.ticketUrl[4] = handoff.outcome.ticket
            /\ ~handoff.result.found => handoff.result.message # Undefined

\* C29 happens: the post was answered 500 and execute returned found = false
\* with its message.
C29_Witness ==
    /\ handoff.pc = "done" /\ handoff.outcome.status = 500
    /\ ~handoff.created.success /\ ~handoff.result.found
    /\ handoff.result.message # Undefined
    /\ Len(messageStore) = 3

\* An action of the given type is dispatched in this step.
Dispatches(type) == form'.tick # form.tick /\ form'.dispatched.type = type

\* C30: the file of the document section is null or a 'text/plain' file of at
\* most 10 MiB; a selection that is not such a file leaves null there and
\* returns an error, a selection that is one is stored and returns null; and
\* each reset action restores its own section and leaves the other as it was.
C30_SelectedFileValid ==
    /\ [](\/ form.state.document.file = NullFile
          \/ /\ form.state.document.file.type = "text/plain"
             /\ form.state.document.file.size <= 10 * 1024 * 1024)
    /\ [][(Dispatches("SET_FILE") /\ form'.selected # NullFile)
          => IF /\ form'.selected.type = "text/plain"
                /\ form'.selected.size <= 10 * 1024 * 1024
             THEN form'.state.document.file = form'.selected /\ form'.returned = Null
             ELSE /\ form'.state.document.file = NullFile
                  /\ form'.returned \in {"Unsupported file type", "File too large (max 10MB)"}
                  /\ form'.error = form'.returned]_vars
    /\ [][Dispatches("RESET_DOCUMENT_FORM")
          => /\ form'.state.document = [file |-> NullFile, description |-> ""]
             /\ form'.state.url = form.state.url]_vars
    /\ [][Dispatches("RESET_URL_FORM")
          => /\ form'.state.url = [value |-> "", description |-> ""]
             /\ form'.state.document = form.state.document]_vars

\* C30 happens: with both sections being filled, a file one byte too large
\* was chosen and refused: no file is held and the error is shown.
C30_Witness ==
    /\ form.dispatched.type = "SET_FILE"
    /\ form.selected.size = MAX_FILE_SIZE + 1
    /\ form.state.document.file = NullFile
    /\ form.returned = "File too large (max 10MB)" /\ form.error = form.returned
    /\ form.state.document.description = "text"
    /\ form.state.url = [value |-> "text", description |-> ""]

====
